---- MODULE Spec2Model ----
(***************************************************************************)
(* Model of the Apple Search Ads adapter: the process-wide token cache of  *)
(* src/src/auth.ts and the generic REST client of src/src/client.ts.       *)
(*                                                                         *)
(* Time is counted in minutes: Date.now() is `clock`, the 5 * 60 * 1000 ms *)
(* buffer of getAccessToken is Margin, and expires_in (seconds in the      *)
(* token response, multiplied by 1000 in the code) is given in minutes.    *)
(* Every `await` of the code is a point where other callers, the clock and *)
(* clearTokenCache may run; the code between two awaits is one action.     *)
(***************************************************************************)
EXTENDS Integers, Sequences, FiniteSets, TLC

\* ---------------------------------------------------------------- bounds
MaxClock == 3
MaxExchanges == 2

\* ------------------------------------------------------------- constants
Margin == 5
AssertionLifetime == 1440

Callers == {"a", "b"}
ExpiresInValues == {3, 7}
Null == [t |-> "null"]

TOKEN_ENDPOINT == "https://appleid.apple.com/auth/oauth2/token"
API_BASE_URL == "https://api.searchads.apple.com/api/v5"

\* the immutable configuration a client is constructed with
Config ==
  [auth |-> [clientId |-> "CLIENT", teamId |-> "TEAM", keyId |-> "KEY",
             privateKeyPath |-> "/key.pem"],
   orgId |-> "40669820"]

Methods == {"get", "post", "put", "delete", "getUserAcl"}
Ops == Methods \cup {"getAccessToken", "delete_campaign"}

\* the client method an operation ends in
MethodOf(o) == IF o = "delete_campaign" THEN "delete" ELSE o

\* the access token the endpoint issues in answer to the n-th token request:
\* `text` is the opaque access_token string the program sees, `exp` is the
\* time at which the endpoint stops honouring it (known to the endpoint only)
AccessToken(n, exp) == [text |-> "tok" \o ToString(n), exp |-> exp]

\* the failed answers the token endpoint can give
TokenFailures ==
  { [status |-> 400, body |-> "{\"error\":\"invalid_client\"}"],
    [status |-> 500, body |-> ""] }

VARIABLES
  clock,        \* Date.now(), in minutes
  cachedToken,  \* auth.ts module variable: Null or [accessToken, expiresAt]
  tokenCalls,   \* number of POSTs sent to the token endpoint so far
  pc,           \* per caller: "idle", "awaitToken", "awaitApi", "done"
  op,           \* per caller: the operation in progress
  now,          \* per caller: `now` of the getAccessToken call in progress
  tokenNet,     \* per caller: token request or response in flight, or Null
  apiNet,       \* per caller: the upstream request in flight, or Null
  apiResp,      \* per caller: the upstream response received, or Null
  result,       \* per caller: what the call returned or threw, or Null
  got,          \* per caller: the token getAccessToken returned to the
                \* operation in progress, or Null
  exchanges,    \* per caller: exchanges (runs of fetchAccessToken) this call began
  sinceClear,   \* per caller: how the call started relative to the last clear
  clearPending, \* a clearTokenCache returned and no call has started since
  lastEvent,    \* the last of: exchange response stored / cache cleared
  requests,     \* per caller: requests this call sent, [token, api]
  key,          \* per caller: "none", or whether the private-key file is
                \* readable during the call in progress ("readable",
                \* "unreadable")
  env,          \* process.env: the five APPLE_ADS_* variables
  client,       \* what createClientFromEnv returned or threw, or Null
  authConfig,   \* what loadAuthConfigFromEnv returned or threw, or Null
  toolArgs,     \* the tool handler invoked and its arguments
  toolRequest,  \* the client call the tool handler made, or Null
  toolResult,   \* what the server's CallTool handler returned, or Null
  construction  \* what the CallTool handler in progress did about the
                \* client: "none" (no call), "skipped", "failed", "succeeded"

\* the state of the server's CallTool handler
serverVars == <<toolResult, construction>>

\* the state of the tool layer and of the configuration
toolVars == <<env, client, authConfig, toolArgs, toolRequest, serverVars>>

vars == <<clock, cachedToken, tokenCalls, pc, op, now,
          tokenNet, apiNet, apiResp, result, got, exchanges, sinceClear,
          clearPending, lastEvent, requests, key, toolVars>>

callVars == <<requests, key, pc, op, now, tokenNet, apiNet, apiResp, result, got, exchanges,
              sinceClear>>

\* ------------------------------------------------------------ auth.ts

\* generateClientSecret: the claim set and header that are signed (t = now)
generateClientSecret(config, t) ==
  [payload |-> [iss |-> config.teamId, iat |-> t,
                exp |-> t + AssertionLifetime,
                aud |-> "https://appleid.apple.com", sub |-> config.clientId],
   header |-> [alg |-> "ES256", kid |-> config.keyId]]

\* mutant: the assertion is minted once, at time 0, and sent with every
\* exchange
TokenRequest_mintedOnce(config, t, n) ==
  [t |-> "request", n |-> n, url |-> TOKEN_ENDPOINT, method |-> "POST",
   grant_type |-> "client_credentials", client_id |-> config.clientId,
   client_secret |-> generateClientSecret(config, 0),
   scope |-> "searchadsorg"]

\* the form body fetchAccessToken posts to the token endpoint, as its n-th
\* request
TokenRequest(config, t, n) ==
  [t |-> "request", n |-> n, url |-> TOKEN_ENDPOINT, method |-> "POST",
   grant_type |-> "client_credentials", client_id |-> config.clientId,
   client_secret |-> generateClientSecret(config, t),
   scope |-> "searchadsorg"]

\* mutant: the error message drops the upstream body
TokenFailureMessage_noBody(resp) ==
  "Failed to fetch access token: " \o ToString(resp.status)

\* the error fetchAccessToken throws for a response that is not ok
TokenFailureMessage(resp) ==
  "Failed to fetch access token: " \o ToString(resp.status) \o " " \o resp.body

\* the error fs.readFileSync throws for an unreadable key
KeyErrorMessage(config) ==
  "ENOENT: no such file or directory, open '" \o config.privateKeyPath \o "'"

\* mutant: the fast path forgets the 5 minute buffer
TokenStillValid_noMargin(cached, n) ==
  cached # Null /\ cached.expiresAt > n

\* mutant: the fast path accepts a token that expires exactly at the buffer
TokenStillValid_atMargin(cached, n) ==
  cached # Null /\ cached.expiresAt >= n + Margin

\* the fast-path test of getAccessToken
TokenStillValid(cached, n) ==
  cached # Null /\ cached.expiresAt > n + Margin

\* mutant: a response is stored only if it outlives the cached token
NewCachedToken_keepLongest(cached, n, resp) ==
  IF cached # Null /\ cached.expiresAt >= n + resp.expires_in
    THEN cached
    ELSE [t |-> "token", accessToken |-> resp.access_token,
          expiresAt |-> n + resp.expires_in]

\* mutant: only the token of an occupied cache is replaced, its expiry kept
NewCachedToken_keepExpiry(cached, n, resp) ==
  [t |-> "token", accessToken |-> resp.access_token,
   expiresAt |-> IF cached # Null THEN cached.expiresAt
                 ELSE n + resp.expires_in]

\* mutant: the expiry is counted from the time the response is received
NewCachedToken_atReceipt(cached, n, resp) ==
  [t |-> "token", accessToken |-> resp.access_token,
   expiresAt |-> clock + resp.expires_in]

\* the cache entry getAccessToken stores after an exchange
NewCachedToken(cached, n, resp) ==
  [t |-> "token", accessToken |-> resp.access_token,
   expiresAt |-> n + resp.expires_in]

\* mutant: a failed exchange drops the cached token
CacheAfterFailure_drop(cached) == Null

\* what a failed exchange leaves in the cache
CacheAfterFailure(cached) == cached

\* mutant: clearTokenCache leaves the cached token in place
ClearedCache_keep == cachedToken

\* the value clearTokenCache assigns
ClearedCache == Null

\* remaining validity of access token tok, as the endpoint sees it
Validity(tok) == tok.exp - clock


\* ------------------------------------------------------- JSON values
\* A parsed JSON value is tagged with its JavaScript type.
JUndef == [t |-> "undefined"]
JStr(s) == [t |-> "string", v |-> s]
JBool(b) == [t |-> "boolean", v |-> b]
JArr(seq) == [t |-> "array", v |-> seq]
JObj(rec) == [t |-> "object", v |-> rec]
JNum(n) == [t |-> "number", v |-> n]

\* response bodies the upstream API may send
B_empty == ""
B_html == "<html>Forbidden</html>"
B_null == "null"
B_data == "{\"data\":[]}"
B_errNull == "{\"data\":null,\"error\":null}"
B_errList1 ==
  "{\"error\":[{\"messageCode\":\"INVALID_ARG\",\"message\":\"bad field\",\"field\":\"name\"}]}"
B_errObj ==
  "{\"error\":{\"messageCode\":\"UNAUTHORIZED\",\"message\":\"no access\",\"field\":\"orgId\"}}"

B_errList2 ==
  "{\"error\":[{\"messageCode\":\"INVALID_ARG\",\"message\":\"bad field\",\"field\":\"name\"},{\"messageCode\":\"LIMIT\",\"message\":\"too many\"}]}"
B_errObjBare == "{\"error\":{\"detail\":\"quota\"}}"
B_full ==
  "{\"data\":[],\"pagination\":null,\"error\":[{\"messageCode\":\"PARTIAL\",\"message\":\"rows skipped\"}]}"

B_errList0 == "{\"error\":[]}"
B_errFalse == "{\"error\":false}"
B_errStr == "{\"error\":\"boom\"}"

Bodies == {B_empty, B_html, B_null, B_data, B_errNull, B_errList1, B_errList2,
           B_errObj, B_errObjBare, B_full, B_errList0, B_errFalse, B_errStr}

Statuses == {200, 204, 403, 404}

StatusText(status) ==
  CASE status = 200 -> "OK"
    [] status = 204 -> "No Content"
    [] status = 403 -> "Forbidden"
    [] status = 404 -> "Not Found"

\* response.ok
Ok(status) == status >= 200 /\ status <= 299

\* whether JSON.parse(text) succeeds
IsJSON(text) == text \in (Bodies \ {B_empty, B_html})

\* JSON.parse(text), for the texts it accepts
JSONParse(text) ==
  CASE text = B_null -> Null
    [] text = B_data -> JObj([data |-> JArr(<<>>)])
    [] text = B_errNull -> JObj([data |-> Null, error |-> Null])
    [] text = B_errList1 ->
         JObj([error |-> JArr(<<JObj([messageCode |-> JStr("INVALID_ARG"),
                                      message |-> JStr("bad field"),
                                      field |-> JStr("name")])>>)])
    [] text = B_errList2 ->
         JObj([error |-> JArr(<<JObj([messageCode |-> JStr("INVALID_ARG"),
                                      message |-> JStr("bad field"),
                                      field |-> JStr("name")]),
                                JObj([messageCode |-> JStr("LIMIT"),
                                      message |-> JStr("too many")])>>)])
    [] text = B_errObj ->
         JObj([error |-> JObj([messageCode |-> JStr("UNAUTHORIZED"),
                               message |-> JStr("no access"),
                               field |-> JStr("orgId")])])
    [] text = B_errObjBare ->
         JObj([error |-> JObj([detail |-> JStr("quota")])])
    [] text = B_errList0 -> JObj([error |-> JArr(<<>>)])
    [] text = B_errFalse -> JObj([error |-> JBool(FALSE)])
    [] text = B_errStr -> JObj([error |-> JStr("boom")])
    [] text = B_full ->
         JObj([data |-> JArr(<<>>), pagination |-> Null,
               error |-> JArr(<<JObj([messageCode |-> JStr("PARTIAL"),
                                      message |-> JStr("rows skipped")])>>)])

\* JSON.stringify(value), for the values the client serializes
JSONStringify(value) ==
  CASE value = JObj([messageCode |-> JStr("UNAUTHORIZED"),
                     message |-> JStr("no access"),
                     field |-> JStr("orgId")]) ->
         "{\"messageCode\":\"UNAUTHORIZED\",\"message\":\"no access\",\"field\":\"orgId\"}"
    [] value = JObj([detail |-> JStr("quota")]) -> "{\"detail\":\"quota\"}"

\* property access j.k of JavaScript
Get(j, k) ==
  IF j.t = "object" /\ k \in DOMAIN j.v THEN j.v[k] ELSE JUndef

\* JavaScript truthiness
Truthy(j) ==
  CASE j.t \in {"null", "undefined"} -> FALSE
    [] j.t = "string" -> j.v # ""
    [] j.t = "boolean" -> j.v
    [] j.t = "number" -> j.v # 0
    [] OTHER -> TRUE

\* string conversion of a value inside a template literal
Str(j) ==
  CASE j.t = "string" -> j.v
    [] j.t = "undefined" -> "undefined"
    [] j.t = "null" -> "null"
    [] j.t = "boolean" -> IF j.v THEN "true" ELSE "false"
    [] j.t = "number" -> ToString(j.v)

\* Array.prototype.join
RECURSIVE Join(_, _)
Join(seq, sep) ==
  IF Len(seq) = 0 THEN ""
  ELSE IF Len(seq) = 1 THEN seq[1]
  ELSE seq[1] \o sep \o Join(Tail(seq), sep)

\* ------------------------------------------------------------ client.ts

\* the headers getHeaders builds around the token getAccessToken returned
getHeaders(config, accessToken) ==
  ("Authorization" :> "Bearer " \o accessToken.text) @@
  ("X-AP-Context" :> "orgId=" \o config.orgId) @@
  ("Content-Type" :> "application/json")

\* mutant: getUserAcl sends the org context like every other request
getUserAclHeaders_withOrg(config, accessToken) ==
  ("Authorization" :> "Bearer " \o accessToken.text) @@
  ("X-AP-Context" :> "orgId=" \o config.orgId) @@
  ("Content-Type" :> "application/json")

\* the headers getUserAcl builds itself
getUserAclHeaders(config, accessToken) ==
  ("Authorization" :> "Bearer " \o accessToken.text) @@
  ("Content-Type" :> "application/json")

\* the fetch call of get / post / put / delete / getUserAcl
UpstreamRequest(config, o, accessToken) ==
  LET m == MethodOf(o) IN
  [t |-> "request",
   method |-> CASE m \in {"get", "getUserAcl"} -> "GET"
                [] m = "post" -> "POST"
                [] m = "put" -> "PUT"
                [] m = "delete" -> "DELETE",
   url |-> API_BASE_URL \o
           (CASE m = "getUserAcl" -> "/acls"
              [] o = "delete_campaign" -> "/campaigns/1"
              [] OTHER -> "/campaigns"),
   headers |-> IF m = "getUserAcl" THEN getUserAclHeaders(config, accessToken)
               ELSE getHeaders(config, accessToken)]

\* mutant: the field segment is rendered also when the entry has no field
ErrorEntry_alwaysField(e) ==
  Str(Get(e, "messageCode")) \o ": " \o Str(Get(e, "message")) \o
  " (field: " \o Str(Get(e, "field")) \o ")"

\* one entry of an error list, as handleResponse renders it
ErrorEntry(e) ==
  Str(Get(e, "messageCode")) \o ": " \o Str(Get(e, "message")) \o
  (IF Truthy(Get(e, "field"))
     THEN " (field: " \o Str(Get(e, "field")) \o ")" ELSE "")

\* a single error object, as handleResponse renders it
ErrorObject(error) ==
  (IF Truthy(Get(error, "messageCode"))
     THEN Str(Get(error, "messageCode")) ELSE "ERROR")
  \o ": " \o
  (IF Truthy(Get(error, "message"))
     THEN Str(Get(error, "message")) ELSE JSONStringify(error))

\* mutant: an error list without entries is treated like a missing error
ErrorMessage_emptyListFallback(status, statusText, text, json) ==
  LET error == Get(json, "error") IN
  IF Truthy(error) /\ ~(error.t = "array" /\ Len(error.v) = 0)
    THEN IF error.t = "array"
           THEN Join([i \in 1..Len(error.v) |-> ErrorEntry(error.v[i])], "; ")
         ELSE IF error.t = "object"
           THEN ErrorObject(error)
         ELSE Str(error)
    ELSE "HTTP " \o ToString(status) \o ": " \o statusText
         \o " - Response: " \o text

\* the message handleResponse synthesizes for a response that is not ok
ErrorMessage(status, statusText, text, json) ==
  LET error == Get(json, "error") IN
  IF Truthy(error)
    THEN IF error.t = "array"
           THEN Join([i \in 1..Len(error.v) |-> ErrorEntry(error.v[i])], "; ")
         ELSE IF error.t = "object"
           THEN ErrorObject(error)
         ELSE Str(error)
    ELSE "HTTP " \o ToString(status) \o ": " \o statusText
         \o " - Response: " \o text

\* mutant: an empty body yields an envelope whose data is undefined
EmptyBodyEnvelope_undefined == JObj([data |-> JUndef])

\* the envelope handleResponse returns for an empty body
EmptyBodyEnvelope == JObj([data |-> Null])

\* mutant: a body that is not JSON is reported by status when not ok
InvalidJSONMessage_byStatus(status, statusText, text) ==
  IF Ok(status) THEN "Invalid JSON response: " \o text
  ELSE "HTTP " \o ToString(status) \o ": " \o statusText

\* the message of the error raised for a body JSON.parse rejects
InvalidJSONMessage(status, statusText, text) ==
  "Invalid JSON response: " \o text

\* mutant: the error field is stripped from a returned envelope
ReturnedEnvelope_noError(json) ==
  IF json.t = "object"
    THEN JObj([k \in DOMAIN json.v \ {"error"} |-> json.v[k]])
    ELSE json

\* the value handleResponse returns for an ok response: the parsed body
ReturnedEnvelope(json) == json

\* handleResponse: what the client call returns ("envelope") or throws
handleResponse(status, statusText, text) ==
  IF text = ""
    THEN [t |-> "envelope", value |-> EmptyBodyEnvelope]
  ELSE IF ~IsJSON(text)
    THEN [t |-> "error",
          message |-> InvalidJSONMessage(status, statusText, text)]
  ELSE LET json == JSONParse(text) IN
    IF ~Ok(status)
      THEN IF json.t = "null"
             THEN [t |-> "error",
                   message |-> "Cannot read properties of null (reading 'error')"]
             ELSE [t |-> "error",
                   message |-> ErrorMessage(status, statusText, text, json)]
      ELSE [t |-> "envelope", value |-> ReturnedEnvelope(json)]

\* handleDeleteCampaign: the object { success: true, ...result } whose
\* JSON.stringify text the tool returns
handleDeleteCampaign(envelope) ==
  [t |-> "text",
   json |-> IF envelope.t = "object"
              THEN JObj(envelope.v @@ [success |-> JBool(TRUE)])
              ELSE JObj([success |-> JBool(TRUE)])]

\* what the operation o makes of the client method's outcome
Outcome(o, r) ==
  IF o = "delete_campaign" /\ r.t = "envelope"
    THEN handleDeleteCampaign(r.value) ELSE r


\* ------------------------------------------------- configuration

\* the environment variables the configuration is read from
EnvNames == {"APPLE_ADS_CLIENT_ID", "APPLE_ADS_TEAM_ID", "APPLE_ADS_KEY_ID",
             "APPLE_ADS_PRIVATE_KEY_PATH", "APPLE_ADS_ORG_ID"}

\* an environment in which all five variables are set
FullEnv ==
  ("APPLE_ADS_CLIENT_ID" :> JStr(Config.auth.clientId)) @@
  ("APPLE_ADS_TEAM_ID" :> JStr(Config.auth.teamId)) @@
  ("APPLE_ADS_KEY_ID" :> JStr(Config.auth.keyId)) @@
  ("APPLE_ADS_PRIVATE_KEY_PATH" :> JStr(Config.auth.privateKeyPath)) @@
  ("APPLE_ADS_ORG_ID" :> JStr(Config.orgId))

\* the environments: each variable is unset, set to the empty string, or set
Envs ==
  {e \in [EnvNames -> {JUndef, JStr("")} \cup {FullEnv[n] : n \in EnvNames}] :
     \A n \in EnvNames : e[n] \in {JUndef, JStr(""), FullEnv[n]}}

\* createClientFromEnv: the client it constructs, or the error it throws
createClientFromEnv(e) ==
  IF \/ ~Truthy(e["APPLE_ADS_CLIENT_ID"]) \/ ~Truthy(e["APPLE_ADS_TEAM_ID"])
     \/ ~Truthy(e["APPLE_ADS_KEY_ID"])
     \/ ~Truthy(e["APPLE_ADS_PRIVATE_KEY_PATH"])
     \/ ~Truthy(e["APPLE_ADS_ORG_ID"])
    THEN [t |-> "error",
          message |-> "Missing required environment variables. Please set: "
                      \o "APPLE_ADS_CLIENT_ID, APPLE_ADS_TEAM_ID, APPLE_ADS_KEY_ID, "
                      \o "APPLE_ADS_PRIVATE_KEY_PATH, APPLE_ADS_ORG_ID"]
    ELSE [t |-> "client",
          config |-> [auth |-> [clientId |-> e["APPLE_ADS_CLIENT_ID"].v,
                                teamId |-> e["APPLE_ADS_TEAM_ID"].v,
                                keyId |-> e["APPLE_ADS_KEY_ID"].v,
                                privateKeyPath |->
                                  e["APPLE_ADS_PRIVATE_KEY_PATH"].v],
                      orgId |-> e["APPLE_ADS_ORG_ID"].v]]

\* loadAuthConfigFromEnv: the AuthConfig it returns, or the error it throws
loadAuthConfigFromEnv(e) ==
  IF ~Truthy(e["APPLE_ADS_CLIENT_ID"])
    THEN [t |-> "error",
          message |-> "APPLE_ADS_CLIENT_ID environment variable is required"]
  ELSE IF ~Truthy(e["APPLE_ADS_TEAM_ID"])
    THEN [t |-> "error",
          message |-> "APPLE_ADS_TEAM_ID environment variable is required"]
  ELSE IF ~Truthy(e["APPLE_ADS_KEY_ID"])
    THEN [t |-> "error",
          message |-> "APPLE_ADS_KEY_ID environment variable is required"]
  ELSE IF ~Truthy(e["APPLE_ADS_PRIVATE_KEY_PATH"])
    THEN [t |-> "error",
          message |->
            "APPLE_ADS_PRIVATE_KEY_PATH environment variable is required"]
  ELSE [t |-> "authConfig",
        config |-> [clientId |-> e["APPLE_ADS_CLIENT_ID"].v,
                    teamId |-> e["APPLE_ADS_TEAM_ID"].v,
                    keyId |-> e["APPLE_ADS_KEY_ID"].v,
                    privateKeyPath |-> e["APPLE_ADS_PRIVATE_KEY_PATH"].v]]

\* ------------------------------------------------------ report tools

\* the `??` operator
Nullish(j, d) == IF j.t \in {"undefined", "null"} THEN d ELSE j

\* an object with no property
NoFields == [k \in {} |-> JUndef]

\* `if (v) obj.k = v`: the property k, set only for a truthy v
Optional(k, v) == IF Truthy(v) THEN (k :> v) ELSE NoFields

\* the ordering buildReportParams falls back to
DefaultOrderBy ==
  JObj([field |-> JStr("impressions"), sortOrder |-> JStr("DESCENDING")])

\* mutant: the selector has no orderBy when the caller gives none
ReportOrderBy_noDefault(selector) ==
  IF Truthy(Get(selector, "orderBy"))
    THEN JArr(<<Get(selector, "orderBy")>>)
    ELSE JUndef

\* selector.orderBy of buildReportParams
ReportOrderBy(selector) ==
  IF Truthy(Get(selector, "orderBy"))
    THEN JArr(<<Get(selector, "orderBy")>>)
    ELSE JArr(<<DefaultOrderBy>>)

\* the selector buildReportParams builds from args.selector
ReportSelector(selector) ==
  JObj([pagination |->
          JObj([offset |-> Nullish(Get(selector, "offset"), JNum(0)),
                limit |-> Nullish(Get(selector, "limit"), JNum(1000))]),
        orderBy |-> ReportOrderBy(selector)]
       @@ Optional("conditions", Get(selector, "conditions")))

\* mutant: returnRowTotals is passed on as the caller gave it
returnRowTotals_asGiven(args) == Nullish(args.returnRowTotals, JBool(FALSE))

\* the local returnRowTotals of buildReportParams after normalization
returnRowTotals(args) ==
  IF ~Truthy(args.granularity)
    THEN JBool(TRUE)
    ELSE Nullish(args.returnRowTotals, JBool(FALSE))

\* mutant: returnGrandTotals is passed on as the caller gave it
returnGrandTotals_asGiven(args) ==
  Nullish(args.returnGrandTotals, JBool(FALSE))

\* the local returnGrandTotals of buildReportParams after normalization
returnGrandTotals(args) ==
  IF ~Truthy(args.granularity)
    THEN Nullish(args.returnGrandTotals, JBool(FALSE))
    ELSE JBool(FALSE)

\* buildReportParams(args)
buildReportParams(args) ==
  JObj([startTime |-> args.startTime,
        endTime |-> args.endTime,
        selector |-> ReportSelector(args.selector),
        returnRowTotals |-> returnRowTotals(args),
        returnGrandTotals |-> returnGrandTotals(args),
        returnRecordsWithNoMetrics |->
          Nullish(args.returnRecordsWithNoMetrics, JBool(FALSE))]
       @@ Optional("groupBy", args.groupBy)
       @@ Optional("timeZone", args.timeZone)
       @@ Optional("granularity", args.granularity))

\* the report tools of the server
ReportTools == {"get_campaign_reports", "get_adgroup_reports",
                "get_keyword_reports", "get_searchterm_reports"}

\* the selectors a caller passes: none, an empty one, one with its own
\* ordering, one with its own page, one with conditions
ReportSelectors ==
  {JUndef,
   JObj(NoFields),
   JObj([orderBy |-> JObj([field |-> JStr("localSpend"),
                           sortOrder |-> JStr("ASCENDING")])]),
   JObj([offset |-> JNum(5), limit |-> JNum(50)]),
   JObj([conditions |->
           JArr(<<JObj([field |-> JStr("countryOrRegion"),
                        operator |-> JStr("EQUALS"),
                        values |-> JArr(<<JStr("US")>>)])>>),
         orderBy |-> JObj([field |-> JStr("taps"),
                           sortOrder |-> JStr("DESCENDING")])])}

\* the arguments a caller passes to the report handler of tool
ReportArgs(tool) ==
  [startTime : {JStr("2024-01-01")},
   endTime : {JStr("2024-01-31")},
   selector : ReportSelectors,
   groupBy : {JUndef},
   timeZone : {JUndef, JStr("UTC")},
   granularity : {JUndef, JStr("HOURLY"), JStr("DAILY"), JStr("WEEKLY"),
                  JStr("MONTHLY")},
   returnRowTotals : {JUndef, JBool(TRUE), JBool(FALSE)},
   returnGrandTotals : {JUndef, JBool(TRUE), JBool(FALSE)},
   returnRecordsWithNoMetrics : {JUndef},
   campaignId : IF tool = "get_campaign_reports" THEN {JUndef}
                ELSE {JNum(1)}]

\* the calls of the report tools
ReportCalls ==
  UNION {{[tool |-> tool, args |-> a] : a \in ReportArgs(tool)} :
           tool \in ReportTools}

\* the client call a report handler makes: this.post(endpoint, params)
ReportRequest(endpoint, params) ==
  [t |-> "post", endpoint |-> endpoint, body |-> params]

\* ------------------------------------------------------------ behaviour

\* no call is in progress and nothing is cached
Quiescent ==
  /\ clock = 0
  /\ cachedToken = Null
  /\ tokenCalls = 0
  /\ pc = [p \in Callers |-> "idle"]
  /\ op = [p \in Callers |-> "none"]
  /\ now = [p \in Callers |-> 0]
  /\ tokenNet = [p \in Callers |-> Null]
  /\ apiNet = [p \in Callers |-> Null]
  /\ apiResp = [p \in Callers |-> Null]
  /\ result = [p \in Callers |-> Null]
  /\ got = [p \in Callers |-> Null]
  /\ exchanges = [p \in Callers |-> 0]
  /\ sinceClear = [p \in Callers |-> "none"]
  /\ clearPending = FALSE
  /\ lastEvent = [t |-> "none"]
  /\ requests = [p \in Callers |-> [token |-> 0, api |-> 0]]
  /\ key = [p \in Callers |-> "none"]

\* the server is handling no tool call
NoToolCall ==
  /\ toolResult = Null
  /\ construction = "none"

\* the process was started with a complete environment and main() has
\* constructed the client
Init ==
  /\ Quiescent
  /\ env = FullEnv
  /\ client = createClientFromEnv(FullEnv)
  /\ authConfig = Null
  /\ toolArgs = Null
  /\ toolRequest = Null
  /\ NoToolCall

\* getAccessToken has produced accessToken for caller p running o: a direct
\* caller gets it back, a client method builds its headers from this.config
\* and calls fetch
Deliver(p, o, accessToken, fromCache) ==
  /\ got' = [got EXCEPT ![p] = [t |-> "got", token |-> accessToken,
                                fromCache |-> fromCache]]
  /\ now' = [now EXCEPT ![p] = 0]
  /\ IF o = "getAccessToken"
       THEN /\ pc' = [pc EXCEPT ![p] = "done"]
            /\ result' = [result EXCEPT ![p] =
                            [t |-> "token", value |-> accessToken]]
            /\ apiNet' = apiNet
            /\ requests' = requests
       ELSE /\ pc' = [pc EXCEPT ![p] = "awaitApi"]
            /\ apiNet' = [apiNet EXCEPT ![p] =
                            UpstreamRequest(client'.config, o, accessToken)]
            /\ requests' = [requests EXCEPT ![p].api = @ + 1]
            /\ result' = result

\* mutant: the private key is read before the cache is consulted
Start_keyFirst(p, o, keyReadable) ==
  /\ pc[p] = "idle"
  /\ op' = [op EXCEPT ![p] = o]
  /\ sinceClear' = [sinceClear EXCEPT ![p] =
                      IF ~clearPending THEN "none"
                      ELSE IF lastEvent.t = "cleared" THEN "direct"
                      ELSE "raced"]
  /\ clearPending' = FALSE
  /\ key' = [key EXCEPT ![p] =
               IF keyReadable THEN "readable" ELSE "unreadable"]
  /\ UNCHANGED <<clock, cachedToken, apiResp, lastEvent, toolVars>>
  /\ IF ~keyReadable
       THEN /\ pc' = [pc EXCEPT ![p] = "done"]
            /\ result' = [result EXCEPT ![p] =
                 [t |-> "error", message |-> KeyErrorMessage(client'.config.auth)]]
            /\ exchanges' = [exchanges EXCEPT ![p] = @ + 1]
            /\ UNCHANGED <<now, tokenNet, tokenCalls, apiNet, got, requests>>
       ELSE IF TokenStillValid(cachedToken, clock)
         THEN /\ Deliver(p, o, cachedToken.accessToken, TRUE)
              /\ UNCHANGED <<tokenNet, tokenCalls, exchanges>>
         ELSE /\ tokenCalls < MaxExchanges
              /\ now' = [now EXCEPT ![p] = clock]
              /\ tokenNet' = [tokenNet EXCEPT ![p] =
                                TokenRequest(client'.config.auth, clock,
                                             tokenCalls + 1)]
              /\ tokenCalls' = tokenCalls + 1
              /\ exchanges' = [exchanges EXCEPT ![p] = @ + 1]
              /\ pc' = [pc EXCEPT ![p] = "awaitToken"]
              /\ requests' = [requests EXCEPT ![p].token = @ + 1]
              /\ UNCHANGED <<apiNet, result, got>>

\* A caller starts operation o: the code from the entry of the client method
\* through getHeaders and getAccessToken up to the first await that suspends
\* (fast path: up to fetch of the upstream request; otherwise up to fetch of
\* the token endpoint, or the throw of readFileSync).  keyReadable tells
\* whether readFileSync(privateKeyPath) succeeds, should it be called.
StartCall(p, o, keyReadable) ==
  /\ pc[p] = "idle"
  /\ op' = [op EXCEPT ![p] = o]
  /\ sinceClear' = [sinceClear EXCEPT ![p] =
                      IF ~clearPending THEN "none"
                      ELSE IF lastEvent.t = "cleared" THEN "direct"
                      ELSE "raced"]
  /\ clearPending' = FALSE
  /\ key' = [key EXCEPT ![p] =
               IF keyReadable THEN "readable" ELSE "unreadable"]
  /\ UNCHANGED <<clock, cachedToken, apiResp, lastEvent>>
  /\ IF TokenStillValid(cachedToken, clock)
       THEN /\ Deliver(p, o, cachedToken.accessToken, TRUE)
            /\ UNCHANGED <<tokenNet, tokenCalls, exchanges>>
       ELSE IF ~keyReadable
         THEN /\ pc' = [pc EXCEPT ![p] = "done"]
              /\ result' = [result EXCEPT ![p] =
                   [t |-> "error", message |-> KeyErrorMessage(client'.config.auth)]]
              /\ exchanges' = [exchanges EXCEPT ![p] = @ + 1]
              /\ UNCHANGED <<now, tokenNet, tokenCalls, apiNet, got, requests>>
         ELSE /\ tokenCalls < MaxExchanges
              /\ now' = [now EXCEPT ![p] = clock]
              /\ tokenNet' = [tokenNet EXCEPT ![p] =
                                TokenRequest(client'.config.auth, clock,
                                             tokenCalls + 1)]
              /\ tokenCalls' = tokenCalls + 1
              /\ exchanges' = [exchanges EXCEPT ![p] = @ + 1]
              /\ pc' = [pc EXCEPT ![p] = "awaitToken"]
              /\ requests' = [requests EXCEPT ![p].token = @ + 1]
              /\ UNCHANGED <<apiNet, result, got>>

\* a call made through a client that exists: the tool layer is not involved
Start(p, o, keyReadable) ==
  /\ UNCHANGED toolVars
  /\ StartCall(p, o, keyReadable)

\* The token endpoint answers the request of caller p: either it issues a
\* new access token, valid for expires_in from now, or it refuses.
TokenEndpointRespond(p) ==
  /\ pc[p] = "awaitToken"
  /\ tokenNet[p].t = "request"
  /\ \/ \E e \in ExpiresInValues :
          tokenNet' = [tokenNet EXCEPT ![p] =
            [t |-> "response", ok |-> TRUE, status |-> 200,
             access_token |-> AccessToken(tokenNet[p].n, clock + e),
             token_type |-> "Bearer", expires_in |-> e]]
     \/ \E f \in TokenFailures :
          tokenNet' = [tokenNet EXCEPT ![p] =
            [t |-> "response", ok |-> FALSE, status |-> f.status,
             body |-> f.body]]
  /\ UNCHANGED <<clock, cachedToken, tokenCalls, pc, op, now,
                 apiNet, apiResp, result, got, exchanges, sinceClear,
                 clearPending, lastEvent, requests, key, toolVars>>

\* mutant: getAccessToken re-checks the replacement it stored and exchanges
\* again when the replacement is itself inside the safety margin
ReceiveTokenResponse_recheck(p) ==
  /\ pc[p] = "awaitToken"
  /\ tokenNet[p].t = "response"
  /\ UNCHANGED <<clock, op, apiResp, sinceClear, clearPending, key,
                 toolVars>>
  /\ IF tokenNet[p].ok
       THEN /\ cachedToken' = NewCachedToken(cachedToken, now[p], tokenNet[p])
            /\ lastEvent' = [t |-> "stored",
                             token |-> tokenNet[p].access_token]
            /\ IF ~TokenStillValid(cachedToken', clock)
                    /\ tokenCalls < MaxExchanges
                 THEN /\ tokenNet' = [tokenNet EXCEPT ![p] =
                            TokenRequest(client'.config.auth, clock,
                                             tokenCalls + 1)]
                      /\ tokenCalls' = tokenCalls + 1
                      /\ exchanges' = [exchanges EXCEPT ![p] = @ + 1]
                      /\ now' = [now EXCEPT ![p] = clock]
                      /\ requests' = [requests EXCEPT ![p].token = @ + 1]
                      /\ UNCHANGED <<pc, apiNet, result, got>>
                 ELSE /\ tokenNet' = [tokenNet EXCEPT ![p] = Null]
                      /\ Deliver(p, op[p], cachedToken'.accessToken, FALSE)
                      /\ UNCHANGED <<tokenCalls, exchanges>>
       ELSE /\ tokenNet' = [tokenNet EXCEPT ![p] = Null]
            /\ cachedToken' = CacheAfterFailure(cachedToken)
            /\ pc' = [pc EXCEPT ![p] = "done"]
            /\ now' = [now EXCEPT ![p] = 0]
            /\ result' = [result EXCEPT ![p] =
                 [t |-> "error", message |-> TokenFailureMessage(tokenNet[p])]]
            /\ UNCHANGED <<apiNet, got, lastEvent, tokenCalls, exchanges,
                           requests>>

\* mutant: after storing its response the call returns what the cache held
\* before, when it held something
ReceiveTokenResponse_staleRead(p) ==
  /\ pc[p] = "awaitToken"
  /\ tokenNet[p].t = "response"
  /\ tokenNet' = [tokenNet EXCEPT ![p] = Null]
  /\ UNCHANGED <<clock, tokenCalls, op, apiResp, exchanges, sinceClear,
                 clearPending, key, toolVars>>
  /\ IF tokenNet[p].ok
       THEN /\ cachedToken' = NewCachedToken(cachedToken, now[p], tokenNet[p])
            /\ lastEvent' = [t |-> "stored",
                             token |-> tokenNet[p].access_token]
            /\ Deliver(p, op[p],
                       IF cachedToken # Null THEN cachedToken.accessToken
                       ELSE tokenNet[p].access_token, FALSE)
       ELSE /\ cachedToken' = CacheAfterFailure(cachedToken)
            /\ pc' = [pc EXCEPT ![p] = "done"]
            /\ now' = [now EXCEPT ![p] = 0]
            /\ result' = [result EXCEPT ![p] =
                 [t |-> "error", message |-> TokenFailureMessage(tokenNet[p])]]
            /\ UNCHANGED <<apiNet, got, lastEvent, requests>>

\* Caller p resumes after the token response: fetchAccessToken throws for a
\* response that is not ok; otherwise getAccessToken stores the new token and
\* returns cachedToken.accessToken, with no suspension between the two.
ReceiveTokenResponse(p) ==
  /\ pc[p] = "awaitToken"
  /\ tokenNet[p].t = "response"
  /\ tokenNet' = [tokenNet EXCEPT ![p] = Null]
  /\ UNCHANGED <<clock, tokenCalls, op, apiResp, exchanges, sinceClear,
                 clearPending, key, toolVars>>
  /\ IF tokenNet[p].ok
       THEN /\ cachedToken' = NewCachedToken(cachedToken, now[p], tokenNet[p])
            /\ lastEvent' = [t |-> "stored",
                             token |-> tokenNet[p].access_token]
            /\ Deliver(p, op[p], cachedToken'.accessToken, FALSE)
       ELSE /\ cachedToken' = CacheAfterFailure(cachedToken)
            /\ pc' = [pc EXCEPT ![p] = "done"]
            /\ now' = [now EXCEPT ![p] = 0]
            /\ result' = [result EXCEPT ![p] =
                 [t |-> "error", message |-> TokenFailureMessage(tokenNet[p])]]
            /\ UNCHANGED <<apiNet, got, lastEvent, requests>>

\* The upstream API answers the request of caller p and the client method
\* resumes in handleResponse.
UpstreamRespond(p, status, text) ==
  /\ pc[p] = "awaitApi"
  /\ apiResp' = [apiResp EXCEPT ![p] =
                   [t |-> "response", status |-> status,
                    statusText |-> StatusText(status), text |-> text]]
  /\ result' = [result EXCEPT ![p] =
                  Outcome(op[p], handleResponse(status, StatusText(status), text))]
  /\ pc' = [pc EXCEPT ![p] = "done"]
  /\ apiNet' = [apiNet EXCEPT ![p] = Null]
  /\ UNCHANGED <<clock, cachedToken, tokenCalls, op, now, tokenNet, got,
                 exchanges, sinceClear, clearPending, lastEvent, requests,
                 key, toolVars>>

\* The caller has its result; it may start another operation.
FinishCall(p) ==
  /\ pc[p] = "done"
  /\ pc' = [pc EXCEPT ![p] = "idle"]
  /\ op' = [op EXCEPT ![p] = "none"]
  /\ apiResp' = [apiResp EXCEPT ![p] = Null]
  /\ result' = [result EXCEPT ![p] = Null]
  /\ got' = [got EXCEPT ![p] = Null]
  /\ exchanges' = [exchanges EXCEPT ![p] = 0]
  /\ sinceClear' = [sinceClear EXCEPT ![p] = "none"]
  /\ requests' = [requests EXCEPT ![p] = [token |-> 0, api |-> 0]]
  /\ key' = [key EXCEPT ![p] = "none"]
  /\ UNCHANGED <<clock, cachedToken, tokenCalls, now, tokenNet, apiNet,
                 clearPending, lastEvent>>

\* a call made through a client that exists returns to its caller
Finish(p) ==
  /\ UNCHANGED toolVars
  /\ FinishCall(p)

\* clearTokenCache()
clearTokenCache ==
  /\ cachedToken' = ClearedCache
  /\ clearPending' = TRUE
  /\ lastEvent' = [t |-> "cleared"]
  /\ UNCHANGED <<clock, tokenCalls, callVars, toolVars>>

\* time passes
Tick ==
  /\ clock < MaxClock
  /\ clock' = clock + 1
  /\ UNCHANGED <<cachedToken, tokenCalls, callVars,
                 clearPending, lastEvent, toolVars>>

\* Callers of the auth module: getAccessToken calls that overlap each other,
\* the passing of time and clearTokenCache.
Next ==
  \/ \E p \in Callers, keyReadable \in BOOLEAN :
       Start(p, "getAccessToken", keyReadable)
  \/ \E p \in Callers : TokenEndpointRespond(p)
  \/ \E p \in Callers : ReceiveTokenResponse(p)
  \/ \E p \in Callers : Finish(p)
  \/ clearTokenCache
  \/ Tick

Spec == Init /\ [][Next]_vars

\* One user of the REST client: every operation of the client, from the
\* token it obtains to the handling of the upstream response.
ClientNext ==
  \/ \E o \in Ops, keyReadable \in BOOLEAN : Start("a", o, keyReadable)
  \/ TokenEndpointRespond("a")
  \/ ReceiveTokenResponse("a")
  \/ \E status \in Statuses, text \in Bodies : UpstreamRespond("a", status, text)
  \/ Finish("a")
  \/ clearTokenCache
  \/ Tick

ClientSpec == Init /\ [][ClientNext]_vars

\* ---------------------------------------------- configuration, behaviour

\* the process starts in some environment; no client exists yet
ConfigInit ==
  /\ Quiescent
  /\ env \in Envs
  /\ client = Null
  /\ authConfig = Null
  /\ toolArgs = Null
  /\ toolRequest = Null
  /\ NoToolCall

\* createClientFromEnv() is called
CreateClientFromEnv ==
  /\ client' = createClientFromEnv(env)
  /\ UNCHANGED <<clock, cachedToken, tokenCalls, callVars, clearPending,
                 lastEvent, serverVars, env, authConfig, toolArgs, toolRequest>>

\* loadAuthConfigFromEnv() is called
LoadAuthConfigFromEnv ==
  /\ authConfig' = loadAuthConfigFromEnv(env)
  /\ UNCHANGED <<clock, cachedToken, tokenCalls, callVars, clearPending,
                 lastEvent, serverVars, env, client, toolArgs, toolRequest>>

ConfigNext == CreateClientFromEnv \/ LoadAuthConfigFromEnv

ConfigSpec == ConfigInit /\ [][ConfigNext]_vars

\* ----------------------------------------------- report tools, behaviour

\* a report tool is about to be called with some arguments
ReportInit ==
  /\ Quiescent
  /\ env = FullEnv
  /\ client = createClientFromEnv(FullEnv)
  /\ authConfig = Null
  /\ toolArgs \in ReportCalls
  /\ toolRequest = Null
  /\ NoToolCall

\* a report handler runs up to its call of the client: it builds the
\* parameters and posts them to endpoint
ReportHandler(tool, endpoint) ==
  /\ toolArgs.tool = tool
  /\ toolRequest = Null
  /\ toolRequest' = ReportRequest(endpoint, buildReportParams(toolArgs.args))
  /\ UNCHANGED <<clock, cachedToken, tokenCalls, callVars, clearPending,
                 lastEvent, serverVars, env, client, authConfig, toolArgs>>

handleGetCampaignReports ==
  ReportHandler("get_campaign_reports", "/reports/campaigns")

handleGetAdGroupReports ==
  ReportHandler("get_adgroup_reports",
                "/reports/campaigns/" \o Str(toolArgs.args.campaignId)
                \o "/adgroups")

handleGetKeywordReports ==
  ReportHandler("get_keyword_reports",
                "/reports/campaigns/" \o Str(toolArgs.args.campaignId)
                \o "/keywords")

handleGetSearchTermReports ==
  ReportHandler("get_searchterm_reports",
                "/reports/campaigns/" \o Str(toolArgs.args.campaignId)
                \o "/searchterms")

ReportNext ==
  \/ handleGetCampaignReports
  \/ handleGetAdGroupReports
  \/ handleGetKeywordReports
  \/ handleGetSearchTermReports

ReportSpec == ReportInit /\ [][ReportNext]_vars

\* ------------------------------------------------- find tools, behaviour

\* the find tools of the server
FindTools == {"find_campaigns", "find_adgroups", "find_targeting_keywords"}

\* the arguments a caller passes to the find handler of tool
FindArgs(tool) ==
  [conditions : {JUndef,
                 JArr(<<JObj([field |-> JStr("status"),
                              operator |-> JStr("EQUALS"),
                              values |-> JArr(<<JStr("ENABLED")>>)])>>)},
   orderBy : {JUndef, JObj([field |-> JStr("name"),
                            sortOrder |-> JStr("ASCENDING")])},
   offset : {JUndef, Null, JNum(0), JNum(5)},
   limit : {JUndef, Null, JNum(0), JNum(50)},
   campaignId : IF tool = "find_campaigns" THEN {JUndef} ELSE {JNum(1)}]

\* the calls of the find tools
FindCalls ==
  UNION {{[tool |-> tool, args |-> a] : a \in FindArgs(tool)} :
           tool \in FindTools}

\* report calls that vary the page the caller asks for
PagedReportCalls ==
  {[tool |-> c.tool,
    args |-> [c.args EXCEPT !.selector =
                JObj(Optional("offset", o) @@ Optional("limit", l))]] :
     c \in {rc \in ReportCalls :
              /\ rc.args.selector = JObj(NoFields)
              /\ rc.args.timeZone = JUndef
              /\ rc.args.returnRowTotals = JUndef
              /\ rc.args.returnGrandTotals = JUndef},
     o \in {JUndef, JNum(5)}, l \in {JUndef, JNum(50)}}

\* mutant: a page value of 0 is replaced by the default like a missing one
FindPagination_falsy(args, limit) ==
  JObj([offset |-> IF Truthy(args.offset) THEN args.offset ELSE JNum(0),
        limit |-> IF Truthy(args.limit) THEN args.limit ELSE JNum(limit)])

\* the pagination a find handler builds, limit being the handler's default
FindPagination(args, limit) ==
  JObj([offset |-> Nullish(args.offset, JNum(0)),
        limit |-> Nullish(args.limit, JNum(limit))])

\* the selector a find handler builds
FindSelector(args, limit) ==
  JObj([conditions |-> args.conditions,
        orderBy |-> IF Truthy(args.orderBy)
                      THEN JArr(<<args.orderBy>>) ELSE JUndef,
        pagination |-> FindPagination(args, limit)])

\* the client call a find handler makes: this.post(endpoint, selector || {})
FindRequest(endpoint, selector) ==
  [t |-> "post", endpoint |-> endpoint,
   body |-> IF Truthy(selector) THEN selector ELSE JObj(NoFields)]

\* a find or report tool is about to be called with some arguments
SelectorInit ==
  /\ Quiescent
  /\ env = FullEnv
  /\ client = createClientFromEnv(FullEnv)
  /\ authConfig = Null
  /\ toolArgs \in FindCalls \cup ReportCalls \cup PagedReportCalls
  /\ toolRequest = Null
  /\ NoToolCall

\* a find handler runs up to its call of the client
FindHandler(tool, endpoint, limit) ==
  /\ toolArgs.tool = tool
  /\ toolRequest = Null
  /\ toolRequest' = FindRequest(endpoint, FindSelector(toolArgs.args, limit))
  /\ UNCHANGED <<clock, cachedToken, tokenCalls, callVars, clearPending,
                 lastEvent, serverVars, env, client, authConfig, toolArgs>>

handleFindCampaigns ==
  FindHandler("find_campaigns", "/campaigns/find", 20)

handleFindAdGroups ==
  FindHandler("find_adgroups",
              "/campaigns/" \o Str(toolArgs.args.campaignId)
              \o "/adgroups/find", 20)

handleFindTargetingKeywords ==
  FindHandler("find_targeting_keywords",
              "/campaigns/" \o Str(toolArgs.args.campaignId)
              \o "/adgroups/targetingkeywords/find", 1000)

SelectorNext ==
  \/ handleFindCampaigns
  \/ handleFindAdGroups
  \/ handleFindTargetingKeywords
  \/ handleGetCampaignReports
  \/ handleGetAdGroupReports
  \/ handleGetKeywordReports
  \/ handleGetSearchTermReports

SelectorSpec == SelectorInit /\ [][SelectorNext]_vars

\* ----------------------------------------------- update tools, behaviour

\* the update tools that take money amounts and a currency
UpdateTools == {"update_campaign", "update_adgroup"}

\* the arguments a caller passes to handleUpdateCampaign
UpdateCampaignArgs ==
  [campaignId : {JNum(1)},
   name : {JUndef, JStr("Spring")},
   status : {JUndef, JStr("PAUSED")},
   countriesOrRegions : {JUndef},
   budgetAmount : {JUndef, JStr("100")},
   dailyBudgetAmount : {JUndef, JStr(""), JStr("10")},
   currency : {JUndef, JStr(""), JStr("USD")},
   clearGeoTargetingOnCountryOrRegionChange : {JUndef, JBool(FALSE)}]

\* the arguments a caller passes to handleUpdateAdGroup
UpdateAdGroupArgs ==
  [campaignId : {JNum(1)},
   adGroupId : {JNum(2)},
   name : {JUndef, JStr("Brand")},
   status : {JUndef},
   startTime : {JUndef},
   endTime : {JUndef, Null, JStr("2025-01-01T00:00:00.000")},
   automatedKeywordsOptIn : {JUndef, JBool(FALSE)},
   defaultCpcBid : {JUndef, JStr("1.50")},
   cpaGoal : {JUndef, JStr(""), JStr("3")},
   currency : {JUndef, JStr(""), JStr("USD")},
   targetingDimensions : {JUndef}]

\* the calls of the update tools
UpdateCalls ==
  {[tool |-> "update_campaign", args |-> a] : a \in UpdateCampaignArgs}
  \cup {[tool |-> "update_adgroup", args |-> a] : a \in UpdateAdGroupArgs}

\* mutant: an amount is sent whenever it is given, with whatever currency
MoneyField_amountOnly(k, amount, currency) ==
  IF Truthy(amount)
    THEN (k :> JObj([amount |-> amount, currency |-> currency]))
    ELSE NoFields

\* `if (amount && currency) updates.k = { amount, currency }`
MoneyField(k, amount, currency) ==
  IF Truthy(amount) /\ Truthy(currency)
    THEN (k :> JObj([amount |-> amount, currency |-> currency]))
    ELSE NoFields

\* `if (v !== undefined) obj.k = w`
IfDefined(k, v, w) == IF v # JUndef THEN (k :> w) ELSE NoFields

\* the updates object handleUpdateCampaign builds
CampaignUpdates(args) ==
  ("clearGeoTargetingOnCountryOrRegionChange" :>
     args.clearGeoTargetingOnCountryOrRegionChange)
  @@ Optional("name", args.name)
  @@ Optional("status", args.status)
  @@ Optional("countriesOrRegions", args.countriesOrRegions)
  @@ MoneyField("budgetAmount", args.budgetAmount, args.currency)
  @@ MoneyField("dailyBudgetAmount", args.dailyBudgetAmount, args.currency)

\* the payload client.updateCampaign puts
updateCampaign(campaignId, updates) ==
  [t |-> "put",
   endpoint |-> "/campaigns/" \o Str(campaignId),
   body |->
     JObj([campaign |->
             JObj([k \in DOMAIN updates
                          \ {"clearGeoTargetingOnCountryOrRegionChange"} |->
                     updates[k]]),
           clearGeoTargetingOnCountryOrRegionChange |->
             Nullish(updates["clearGeoTargetingOnCountryOrRegionChange"],
                     JBool(FALSE))])]

\* the updates object handleUpdateAdGroup builds
AdGroupUpdates(args) ==
  NoFields
  @@ Optional("name", args.name)
  @@ Optional("status", args.status)
  @@ Optional("startTime", args.startTime)
  @@ IfDefined("endTime", args.endTime, Nullish(args.endTime, JUndef))
  @@ IfDefined("automatedKeywordsOptIn", args.automatedKeywordsOptIn,
               args.automatedKeywordsOptIn)
  @@ MoneyField("defaultCpcBid", args.defaultCpcBid, args.currency)
  @@ MoneyField("cpaGoal", args.cpaGoal, args.currency)
  @@ Optional("targetingDimensions", args.targetingDimensions)

\* the payload client.updateAdGroup puts
updateAdGroup(campaignId, adGroupId, updates) ==
  [t |-> "put",
   endpoint |-> "/campaigns/" \o Str(campaignId) \o "/adgroups/"
                \o Str(adGroupId),
   body |-> JObj(updates)]

\* an update tool is about to be called with some arguments
UpdateInit ==
  /\ Quiescent
  /\ env = FullEnv
  /\ client = createClientFromEnv(FullEnv)
  /\ authConfig = Null
  /\ toolArgs \in UpdateCalls
  /\ toolRequest = Null
  /\ NoToolCall

\* handleUpdateCampaign, up to its call of the client
handleUpdateCampaign ==
  /\ toolArgs.tool = "update_campaign"
  /\ toolRequest = Null
  /\ toolRequest' = updateCampaign(toolArgs.args.campaignId,
                                   CampaignUpdates(toolArgs.args))
  /\ UNCHANGED <<clock, cachedToken, tokenCalls, callVars, clearPending,
                 lastEvent, serverVars, env, client, authConfig, toolArgs>>

\* handleUpdateAdGroup, up to its call of the client
handleUpdateAdGroup ==
  /\ toolArgs.tool = "update_adgroup"
  /\ toolRequest = Null
  /\ toolRequest' = updateAdGroup(toolArgs.args.campaignId,
                                  toolArgs.args.adGroupId,
                                  AdGroupUpdates(toolArgs.args))
  /\ UNCHANGED <<clock, cachedToken, tokenCalls, callVars, clearPending,
                 lastEvent, serverVars, env, client, authConfig, toolArgs>>

UpdateNext == handleUpdateCampaign \/ handleUpdateAdGroup

UpdateSpec == UpdateInit /\ [][UpdateNext]_vars

\* ------------------------------------------------------ server, behaviour

\* the names in the tool list the server advertises (allToolDefinitions)
accountToolDefinitions == {"get_user_acl", "search_apps", "search_geo"}

campaignToolDefinitions ==
  {"create_campaign", "get_campaigns", "find_campaigns", "update_campaign",
   "delete_campaign"}

adGroupToolDefinitions ==
  {"create_adgroup", "get_adgroups", "find_adgroups", "update_adgroup",
   "delete_adgroup"}

keywordToolDefinitions ==
  {"create_targeting_keywords", "get_targeting_keywords",
   "find_targeting_keywords", "update_targeting_keywords",
   "create_campaign_negative_keywords", "get_campaign_negative_keywords",
   "update_campaign_negative_keywords", "delete_campaign_negative_keywords",
   "create_adgroup_negative_keywords", "get_adgroup_negative_keywords",
   "update_adgroup_negative_keywords", "delete_adgroup_negative_keywords"}

reportToolDefinitions ==
  {"get_campaign_reports", "get_adgroup_reports", "get_keyword_reports",
   "get_searchterm_reports"}

allToolDefinitions ==
  accountToolDefinitions \cup campaignToolDefinitions
    \cup adGroupToolDefinitions \cup keywordToolDefinitions
    \cup reportToolDefinitions

\* the switch of the CallTool handler: the client method each case ends in
\* (through its handler), in the order of the cases
DispatchTable ==
  <<[name |-> "get_user_acl", method |-> "getUserAcl"],
    [name |-> "search_apps", method |-> "get"],
    [name |-> "search_geo", method |-> "get"],
    [name |-> "create_campaign", method |-> "post"],
    [name |-> "get_campaigns", method |-> "get"],
    [name |-> "find_campaigns", method |-> "post"],
    [name |-> "update_campaign", method |-> "put"],
    [name |-> "delete_campaign", method |-> "delete"],
    [name |-> "create_adgroup", method |-> "post"],
    [name |-> "get_adgroups", method |-> "get"],
    [name |-> "find_adgroups", method |-> "post"],
    [name |-> "update_adgroup", method |-> "put"],
    [name |-> "delete_adgroup", method |-> "delete"],
    [name |-> "create_targeting_keywords", method |-> "post"],
    [name |-> "get_targeting_keywords", method |-> "get"],
    [name |-> "find_targeting_keywords", method |-> "post"],
    [name |-> "update_targeting_keywords", method |-> "put"],
    [name |-> "create_campaign_negative_keywords", method |-> "post"],
    [name |-> "get_campaign_negative_keywords", method |-> "get"],
    [name |-> "update_campaign_negative_keywords", method |-> "put"],
    [name |-> "delete_campaign_negative_keywords", method |-> "post"],
    [name |-> "create_adgroup_negative_keywords", method |-> "post"],
    [name |-> "get_adgroup_negative_keywords", method |-> "get"],
    [name |-> "update_adgroup_negative_keywords", method |-> "put"],
    [name |-> "delete_adgroup_negative_keywords", method |-> "post"],
    [name |-> "get_campaign_reports", method |-> "post"],
    [name |-> "get_adgroup_reports", method |-> "post"],
    [name |-> "get_keyword_reports", method |-> "post"],
    [name |-> "get_searchterm_reports", method |-> "post"]>>

\* the names the switch has a case for
DispatchCases == {DispatchTable[i].name : i \in DOMAIN DispatchTable}

\* the client method the case of `name` ends in
ToolOp(name) ==
  LET i == CHOOSE k \in DOMAIN DispatchTable : DispatchTable[k].name = name
  IN  DispatchTable[i].method

\* the handlers that return { success: true, ...result }
DeleteTools ==
  {"delete_campaign", "delete_adgroup", "delete_campaign_negative_keywords",
   "delete_adgroup_negative_keywords"}

\* the cases that use `args` without parsing it against a schema
UnparsedTools == {"search_apps", "search_geo"}

\* the names a tool call may carry: the advertised ones and one that is not
ToolNames == allToolDefinitions \cup {"drop_database"}

\* the arguments of a tool call: an object its schema accepts, or none
ArgKinds == {"valid", "undefined"}

\* the message of the ZodError that xxxSchema.parse(undefined) throws
ZodRequiredMessage ==
  "[\n  {\n    \"code\": \"invalid_type\",\n    \"expected\": \"object\",\n"
  \o "    \"received\": \"undefined\",\n    \"path\": [],\n"
  \o "    \"message\": \"Required\"\n  }\n]"

\* what the case of `name` throws before it calls the client, if anything:
\* get_user_acl ignores args, the search cases read args.query, the other
\* cases parse args against their schema
Validate(name, args) ==
  IF name = "get_user_acl" \/ args = "valid" THEN [t |-> "ok"]
  ELSE IF name \in UnparsedTools
    THEN [t |-> "error",
          message |-> "Cannot read properties of undefined (reading 'query')"]
  ELSE [t |-> "error", message |-> ZodRequiredMessage]

\* the response of a tool call that succeeded
TextResult(text) == [content |-> <<[type |-> "text", text |-> text]>>]

\* the response of the catch block
ErrorResult_noFlag(message) ==
  [content |-> <<[type |-> "text", text |-> JStr("Error: " \o message)]>>]

ErrorResult(message) ==
  [content |-> <<[type |-> "text", text |-> JStr("Error: " \o message)]>>,
   isError |-> TRUE]

\* the response of the default case
UnknownToolResult(name) ==
  [content |-> <<[type |-> "text", text |-> JStr("Unknown tool: " \o name)]>>,
   isError |-> TRUE]

\* the response when no client can be constructed
CredentialsResult ==
  TextResult(JStr(
    "Error: Apple Ads credentials not configured. "
    \o "Please set the following environment variables:\n"
    \o "- APPLE_ADS_CLIENT_ID\n" \o "- APPLE_ADS_TEAM_ID\n"
    \o "- APPLE_ADS_KEY_ID\n" \o "- APPLE_ADS_PRIVATE_KEY_PATH\n"
    \o "- APPLE_ADS_ORG_ID"))

\* the text a handler makes of the envelope the client returned:
\* JSON.stringify(result, null, 2), the delete handlers adding success
HandlerText(name, envelope) ==
  IF name \in DeleteTools THEN handleDeleteCampaign(envelope)
  ELSE [t |-> "text", json |-> envelope]

\* the response of a tool call whose client call ended in r
ToolResult(name, r) ==
  IF r.t = "error" THEN ErrorResult(r.message)
  ELSE TextResult(HandlerText(name, r.value))

\* main(): the client it holds when the server starts to take requests
main(e) ==
  LET c == createClientFromEnv(e) IN IF c.t = "client" THEN c ELSE Null

\* the client a tool call works with: `if (!client) client =
\* createClientFromEnv()`, an error standing for the throw
ClientFor_always(c, e) == createClientFromEnv(e)

ClientFor(c, e) == IF c = Null THEN createClientFromEnv(e) ELSE c

\* the environments the server runs in: complete, complete for another
\* organisation, and incomplete
ServerEnvs ==
  {FullEnv,
   [FullEnv EXCEPT !["APPLE_ADS_ORG_ID"] = JStr("2")],
   [FullEnv EXCEPT !["APPLE_ADS_KEY_ID"] = JStr("")]}

\* the upstream answers a tool call meets: success with data, success and
\* failure without a body, failure with an error list
ServerStatuses == {200, 403}

ServerBodies == {B_empty, B_data, B_errList1}

\* the server takes requests after main() has tried to construct the client
ServerInit ==
  /\ Quiescent
  /\ env \in ServerEnvs
  /\ client = main(env)
  /\ authConfig = Null
  /\ toolArgs = Null
  /\ toolRequest = Null
  /\ NoToolCall

\* the CallTool handler, up to its first await or its return: the lazy
\* construction of the client, the switch, the validation of the arguments
\* and the entry into the client method
CallTool(name, args, keyReadable) ==
  /\ pc["a"] = "idle"
  /\ toolArgs' = [tool |-> name, args |-> args]
  /\ UNCHANGED <<env, authConfig, toolRequest>>
  /\ LET c == ClientFor(client, env) IN
     IF c.t = "error"
       THEN /\ client' = client
            /\ construction' = "failed"
            /\ toolResult' = CredentialsResult
            /\ UNCHANGED <<clock, cachedToken, tokenCalls, callVars,
                           clearPending, lastEvent>>
       ELSE /\ client' = c
            /\ construction' = IF client = Null THEN "succeeded" ELSE "skipped"
            /\ IF name \notin DispatchCases
                 THEN /\ toolResult' = UnknownToolResult(name)
                      /\ UNCHANGED <<clock, cachedToken, tokenCalls, callVars,
                                     clearPending, lastEvent>>
               ELSE IF Validate(name, args).t = "error"
                 THEN /\ toolResult' = ErrorResult(Validate(name, args).message)
                      /\ UNCHANGED <<clock, cachedToken, tokenCalls, callVars,
                                     clearPending, lastEvent>>
               ELSE /\ toolResult' = Null
                    /\ StartCall("a", ToolOp(name), keyReadable)

\* the client method has returned or thrown: the handler and the CallTool
\* handler turn the outcome into the response
ToolReturn ==
  /\ FinishCall("a")
  /\ toolResult' = ToolResult(toolArgs.tool, result["a"])
  /\ UNCHANGED <<env, client, authConfig, toolArgs, toolRequest, construction>>

\* the environment of the process changes
SetEnv(e) ==
  /\ env # e
  /\ env' = e
  /\ UNCHANGED <<clock, cachedToken, tokenCalls, callVars, clearPending,
                 lastEvent, serverVars, client, authConfig, toolArgs,
                 toolRequest>>

ServerNext ==
  \/ \E name \in ToolNames, args \in ArgKinds, keyReadable \in BOOLEAN :
       CallTool(name, args, keyReadable)
  \/ TokenEndpointRespond("a")
  \/ ReceiveTokenResponse("a")
  \/ \E status \in ServerStatuses, text \in ServerBodies :
       UpstreamRespond("a", status, text)
  \/ ToolReturn
  \/ \E e \in ServerEnvs : SetEnv(e)

\* the clock stands still here: the tool calls are made at one instant, at
\* which a token issued for ExpiresInValues' larger value is served from the
\* cache and one issued for the smaller value is not
ServerSpec == ServerInit /\ [][ServerNext]_vars


\* ------------------------------------------------------------ properties

\* caller p takes its first step of a call: the entry to getAccessToken
StartStep(p) == pc[p] = "idle" /\ pc'[p] # "idle"

\* caller p is handed a token by getAccessToken in this step
ReturnStep(p) == got[p].t = "null" /\ got'[p].t = "got"

\* caller p resumes from the token endpoint's answer in this step
ResumeStep(p) ==
  pc[p] = "awaitToken" /\ tokenNet[p].t = "response" /\ pc'[p] # "awaitToken"

\* the cache is empty or its expiresAt is not strictly greater than now + 5 min
NeedsExchange ==
  IF cachedToken.t = "null" THEN TRUE
  ELSE cachedToken.expiresAt <= clock + Margin

\* C1 (as stated): every access token getAccessToken returns, from the cache
\* or fresh from the endpoint, has at least 5 minutes of validity left at the
\* moment of return.
C1_EveryReturnedTokenHasMargin ==
  [][\A p \in Callers :
       ReturnStep(p) => (got[p].token.exp - clock)' >= Margin]_vars

\* C1 (amended): every access token getAccessToken serves from the cache has
\* at least 5 minutes of validity left at the moment of return.
C1_CachedTokenHasMargin ==
  [][\A p \in Callers :
       (ReturnStep(p) /\ got'[p].fromCache)
         => (got[p].token.exp - clock)' >= Margin]_vars

\* C1 witness: a caller was just served a cached token that has 6 minutes left
C1_Witness ==
  \E p \in Callers :
    /\ got[p].t = "got" /\ got[p].fromCache
    /\ got[p].token.exp - clock = Margin + 1

\* C2: a getAccessToken call begins an exchange if and only if the cache is
\* empty or expiresAt <= now + 5 min, and then sends one request to the token
\* endpoint (none only if reading the key throws); otherwise it returns the
\* cached accessToken, sends nothing and leaves the cache unchanged.
C2_ExchangeIffMarginFails ==
  [][\A p \in Callers :
       StartStep(p) =>
         /\ (exchanges'[p] = 1) <=> NeedsExchange
         /\ NeedsExchange =>
              \/ tokenCalls' = tokenCalls + 1 /\ tokenNet'[p].t = "request"
              \/ /\ tokenCalls' = tokenCalls
                 /\ result'[p].t = "error"
                 /\ result'[p].message = KeyErrorMessage(Config.auth)
         /\ ~NeedsExchange =>
              /\ tokenCalls' = tokenCalls
              /\ tokenNet' = tokenNet
              /\ cachedToken' = cachedToken
              /\ got'[p].t = "got"
              /\ got'[p].token = cachedToken.accessToken
              /\ result'[p] = [t |-> "token", value |-> cachedToken.accessToken]]_vars

\* C2 witness: one caller re-exchanges a cached token that expires in 4
\* minutes while the other was served from the cache
C2_Witness ==
  \E p, q \in Callers :
    /\ pc[p] = "awaitToken" /\ exchanges[p] = 1
    /\ cachedToken.t = "token" /\ cachedToken.expiresAt - now[p] = Margin - 1
    /\ got[q].t = "got" /\ got[q].fromCache /\ exchanges[q] = 0

\* C3 (as stated): the first getAccessToken call to start after a
\* clearTokenCache performs an exchange of its own before it returns a token,
\* whatever calls were in flight at the clear.
C3_FreshExchangeAfterClear ==
  \A p \in Callers :
    (sinceClear[p] # "none" /\ got[p].t = "got")
      => (~got[p].fromCache /\ exchanges[p] = 1)

\* C4: a non-2xx answer of the token endpoint makes getAccessToken fail with
\* a message carrying the status and the body, and no step of such a call
\* changes the cached token.
C4_FailedExchangeLeavesCache ==
  [][\A p \in Callers :
       /\ StartStep(p) => cachedToken' = cachedToken
       /\ (ResumeStep(p) /\ ~tokenNet[p].ok) =>
            /\ cachedToken' = cachedToken
            /\ pc'[p] = "done"
            /\ got'[p].t = "null"
            /\ result'[p].t = "error"
            /\ result'[p].message =
                 "Failed to fetch access token: "
                 \o ToString(tokenNet[p].status) \o " " \o tokenNet[p].body]_vars

\* C4 witness: a call failed with the endpoint's 400 while the old token,
\* inside its safety margin, is still cached
C4_Witness ==
  \E p \in Callers :
    /\ pc[p] = "done" /\ result[p].t = "error"
    /\ result[p].message =
         "Failed to fetch access token: 400 {\"error\":\"invalid_client\"}"
    /\ cachedToken.t = "token"
    /\ cachedToken.expiresAt <= clock + Margin

\* C5: a call whose margin check fails begins exactly one exchange and then
\* returns the replacement, also when the replacement is itself inside the
\* margin: it is never re-checked and exchanged again.
C5_ExactlyOneExchange ==
  \A p \in Callers :
    /\ exchanges[p] <= 1
    /\ (got[p].t = "got" /\ ~got[p].fromCache) =>
         /\ exchanges[p] = 1
         /\ pc[p] # "awaitToken"
         /\ tokenNet[p].t = "null"
         /\ (op[p] = "getAccessToken" =>
               pc[p] = "done" /\ result[p] = [t |-> "token", value |-> got[p].token])

\* C5 witness: a call returned a replacement whose stored expiry is already
\* inside the safety margin
C5_Witness ==
  \E p \in Callers :
    /\ pc[p] = "done" /\ got[p].t = "got" /\ ~got[p].fromCache
    /\ cachedToken.t = "token" /\ cachedToken.accessToken = got[p].token
    /\ cachedToken.expiresAt <= clock + Margin
    /\ exchanges[p] = 1

\* C6: overlapping calls each perform their own exchange; each call whose
\* exchange succeeds returns a token; and the cache holds the token of the
\* response processed last (unless cleared since).
C6_LastWriterWins ==
  /\ [](lastEvent.t = "stored" =>
          cachedToken.t = "token" /\ cachedToken.accessToken = lastEvent.token)
  /\ [][\A p \in Callers :
          (ResumeStep(p) /\ tokenNet[p].ok) =>
            /\ got'[p].t = "got"
            /\ lastEvent' = [t |-> "stored", token |-> tokenNet[p].access_token]]_vars

\* C6 witness: both calls exchanged, the one that asked first was answered
\* last, and the cache holds its token
C6_Witness ==
  \E p, q \in Callers :
    /\ pc[p] = "done" /\ pc[q] = "done"
    /\ got[p].t = "got" /\ ~got[p].fromCache /\ got[p].token.text = "tok1"
    /\ got[q].t = "got" /\ ~got[q].fromCache /\ got[q].token.text = "tok2"
    /\ lastEvent.t = "stored" /\ lastEvent.token = got[p].token
    /\ cachedToken.t = "token" /\ cachedToken.accessToken = got[p].token

\* C7: a cache that holds a token becomes empty only by clearTokenCache: never
\* by a step of a call (entry, failed or successful exchange) or by time.
C7_OnlyClearEmpties ==
  [][(cachedToken.t = "token" /\ cachedToken'.t = "null")
       => (lastEvent' = [t |-> "cleared"] /\ UNCHANGED <<clock, callVars, tokenCalls>>)]_vars

\* C7 witness: an expired token is still cached after a call failed to
\* replace it
C7_Witness ==
  \E p \in Callers :
    /\ cachedToken.t = "token" /\ cachedToken.expiresAt <= clock
    /\ pc[p] = "done" /\ result[p].t = "error" /\ exchanges[p] = 1


\* C8: every upstream request is sent only after getAccessToken returned a
\* token to the call and carries Authorization: Bearer <that token> and a
\* JSON content type; X-AP-Context is present on every request except
\* getUserAcl's; a call whose token acquisition failed sends no request.
C8_AuthenticatedRequests ==
  \A p \in Callers :
    /\ (apiNet[p].t = "request" \/ apiResp[p].t = "response") => got[p].t = "got"
    /\ apiNet[p].t = "request" =>
         LET h == apiNet[p].headers IN
         /\ op[p] \in Ops \ {"getAccessToken"}
         /\ h["Authorization"] = "Bearer " \o got[p].token.text
         /\ h["Content-Type"] = "application/json"
         /\ ("X-AP-Context" \in DOMAIN h) <=> (MethodOf(op[p]) # "getUserAcl")
         /\ ("X-AP-Context" \in DOMAIN h) =>
              h["X-AP-Context"] = "orgId=" \o Config.orgId
         /\ (MethodOf(op[p]) = "getUserAcl") <=>
              (apiNet[p].url = API_BASE_URL \o "/acls")
    /\ (result[p].t = "error" /\ got[p].t = "null") =>
         (apiNet[p].t = "null" /\ apiResp[p].t = "null")

\* C8 witness: getUserAcl has sent its request with a freshly exchanged token
C8_Witness ==
  \E p \in Callers :
    /\ apiNet[p].t = "request" /\ op[p] = "getUserAcl"
    /\ got[p].t = "got" /\ ~got[p].fromCache

\* C9 (as stated): for every upstream response with a non-2xx status,
\* whatever its body, the client call raises an error and returns no envelope
\* (so the delete tool reports no success).
C9_NonOkAlwaysRaises ==
  \A p \in Callers :
    (apiResp[p].t = "response" /\ ~Ok(apiResp[p].status))
      => result[p].t = "error"

\* the response body text carries no error field
NoErrorField(text) ==
  \/ text = ""
  \/ IsJSON(text) /\ Get(JSONParse(text), "error").t = "undefined"

\* C10 (as stated): for a non-2xx response without an error field, the empty
\* body included, the raised message is
\* "HTTP <status>: <statusText> - Response: <raw text>".
C10_FallbackMessage ==
  \A p \in Callers :
    (apiResp[p].t = "response" /\ ~Ok(apiResp[p].status)
       /\ NoErrorField(apiResp[p].text))
      => /\ result[p].t = "error"
         /\ result[p].message =
              "HTTP " \o ToString(apiResp[p].status) \o ": "
              \o apiResp[p].statusText \o " - Response: " \o apiResp[p].text

\* a response has been classified for caller p
Classified(p) == apiResp[p].t = "response" /\ pc[p] = "done"

\* the rendering "<messageCode>: <message> (field: <field>)" of an entry, the
\* field segment left out for an entry without a field
Rendered(e) ==
  IF "field" \in DOMAIN e.v
    THEN e.v.messageCode.v \o ": " \o e.v.message.v
         \o " (field: " \o e.v.field.v \o ")"
    ELSE e.v.messageCode.v \o ": " \o e.v.message.v

\* the error list of a response body, or <<>> when it carries none
ErrorList(text) ==
  IF IsJSON(text) /\ Get(JSONParse(text), "error").t = "array"
    THEN Get(JSONParse(text), "error").v ELSE <<>>

\* C11: for a non-2xx response whose envelope carries an error list, the
\* raised message is the entries in list order, each rendered as
\* "<messageCode>: <message> (field: <field>)" with the field segment left
\* out for an entry without a field; for the one-entry list
\* {INVALID_ARG, bad field, name} it is "INVALID_ARG: bad field (field: name)".
C11_ErrorListMessage ==
  \A p \in Callers :
    (Classified(p) /\ ~Ok(apiResp[p].status)
       /\ Len(ErrorList(apiResp[p].text)) > 0)
      => LET list == ErrorList(apiResp[p].text) IN
         /\ result[p].t = "error"
         /\ result[p].message =
              Join([i \in 1..Len(list) |-> Rendered(list[i])], "; ")
         /\ apiResp[p].text = B_errList1 =>
              result[p].message = "INVALID_ARG: bad field (field: name)"
         /\ apiResp[p].text = B_errList2 =>
              result[p].message =
                "INVALID_ARG: bad field (field: name); LIMIT: too many"

\* C11 witness: a 403 with a two-entry error list, the second entry without
\* a field, has been turned into an error
C11_Witness ==
  \E p \in Callers :
    /\ Classified(p) /\ apiResp[p].status = 403
    /\ apiResp[p].text = B_errList2 /\ result[p].t = "error"

\* the single error object of a response body, or Null when it carries none
ErrorObjectOf(text) ==
  IF IsJSON(text) /\ Get(JSONParse(text), "error").t = "object"
    THEN Get(JSONParse(text), "error") ELSE Null

\* C12 (as stated): for a non-2xx response whose error field is a single
\* object, the raised message has the format of a list entry,
\* "<messageCode>: <message> (field: <field>)", the field segment left out
\* only when the object has no field.
C12_ErrorObjectLikeEntry ==
  \A p \in Callers :
    (Classified(p) /\ ~Ok(apiResp[p].status)
       /\ ErrorObjectOf(apiResp[p].text).t = "object"
       /\ {"messageCode", "message"} \subseteq
            DOMAIN ErrorObjectOf(apiResp[p].text).v)
      => /\ result[p].t = "error"
         /\ result[p].message = Rendered(ErrorObjectOf(apiResp[p].text))

\* C13: for a 2xx response with an empty body the client call raises nothing
\* and returns an envelope whose data is null and which has no error.
C13_EmptyBodyEnvelope ==
  \A p \in Callers :
    (Classified(p) /\ Ok(apiResp[p].status) /\ apiResp[p].text = "")
      => /\ result[p].t # "error"
         /\ op[p] \in Methods =>
              /\ result[p].t = "envelope"
              /\ Get(result[p].value, "data") = Null
              /\ Get(result[p].value, "error") = JUndef

\* C13 witness: a delete answered 204 with no content has returned
C13_Witness ==
  \E p \in Callers :
    /\ Classified(p) /\ op[p] = "delete" /\ apiResp[p].status = 204
    /\ apiResp[p].text = "" /\ result[p].t = "envelope"

\* C14: for every response with a non-empty body that is not valid JSON,
\* whatever the status, the client call returns no envelope and raises an
\* error whose message is "Invalid JSON response: " followed by the raw body
\* text.
C14_InvalidJSONCarriesText ==
  \A p \in Callers :
    (Classified(p) /\ apiResp[p].text # "" /\ ~IsJSON(apiResp[p].text))
      => /\ result[p].t = "error"
         /\ result[p].message = "Invalid JSON response: " \o apiResp[p].text

\* C14 witness: both a 200 and a 403 carrying an HTML page are reachable; this
\* is the 403
C14_Witness ==
  \E p \in Callers :
    /\ Classified(p) /\ apiResp[p].status = 403
    /\ apiResp[p].text = B_html /\ result[p].t = "error"

\* C15: for a 2xx response with a JSON body the client call returns exactly
\* the parsed body, no field added, removed or changed, also when it holds a
\* populated error field.
C15_EnvelopeUnchanged ==
  \A p \in Callers :
    (Classified(p) /\ Ok(apiResp[p].status) /\ IsJSON(apiResp[p].text)
       /\ op[p] \in Methods)
      => result[p] = [t |-> "envelope", value |-> JSONParse(apiResp[p].text)]

\* C15 witness: a 200 whose body holds data, pagination and a populated error
\* list has been returned
C15_Witness ==
  \E p \in Callers :
    /\ Classified(p) /\ apiResp[p].status = 200 /\ apiResp[p].text = B_full
    /\ op[p] = "get" /\ result[p].t = "envelope"
    /\ Truthy(Get(result[p].value, "error"))

\* caller p resumes from a token response that is not ok
TokenFailureStep(p) ==
  /\ pc[p] = "awaitToken" /\ tokenNet[p].t = "response" /\ ~tokenNet[p].ok
  /\ pc'[p] # pc[p]

\* caller p fails to read the private key while entering an exchange
KeyFailureStep(p) ==
  /\ pc[p] = "idle" /\ pc'[p] # "idle"
  /\ exchanges'[p] = 1 /\ requests'[p].token = 0

\* one call sends at most one token request and at most one upstream request
AtMostOneRequestEach ==
  \A p \in Callers :
    /\ requests[p].token <= 1 /\ requests[p].api <= 1
    /\ exchanges[p] <= 1

\* a call that has an error has ended, with nothing in flight and nothing
\* sent after the failure
ErrorEndsCall ==
  \A p \in Callers :
    result[p].t = "error" =>
      /\ pc[p] = "done" /\ tokenNet[p].t = "null" /\ apiNet[p].t = "null"
      /\ got[p].t = "null" => requests[p].api = 0

\* C16 (as stated): nothing is retried: one client call sends at most one
\* token request and at most one upstream request, and any failure (key read,
\* token exchange, malformed body, non-2xx status) ends the call at once with
\* that error propagated to the caller.
C16_NothingRetried ==
  /\ [](AtMostOneRequestEach /\ ErrorEndsCall)
  /\ [](\A p \in Callers :
          (apiResp[p].t = "response"
             /\ (~Ok(apiResp[p].status)
                   \/ (apiResp[p].text # "" /\ ~IsJSON(apiResp[p].text))))
            => (pc[p] = "done" /\ result[p].t = "error"))
  /\ [][\A p \in Callers :
          (TokenFailureStep(p) \/ KeyFailureStep(p))
            => (pc'[p] = "done" /\ result'[p].t = "error"
                /\ requests'[p] = requests[p])]_vars

\* the variables whose value in environment e is missing
MissingIn(e) == {n \in EnvNames : ~Truthy(e[n])}

\* the text msg contains the text name
Mentions(msg, name) ==
  \E i \in 1..(Len(msg) - Len(name) + 1) :
    SubSeq(msg, i, i + Len(name) - 1) = name

\* C17 (as stated): whenever exactly one of the five required values is
\* missing, client construction fails with an error whose message names that
\* variable and no other, and no network call is made.
C17_NamesMissingField ==
  (client.t # "null" /\ Cardinality(MissingIn(env)) = 1)
    => /\ client.t = "error"
       /\ \A n \in EnvNames :
            Mentions(client.message, n) <=> (n \in MissingIn(env))
       /\ tokenCalls = 0
       /\ \A p \in Callers : requests[p] = [token |-> 0, api |-> 0]

\* a report handler has made its client call
ReportSent == toolRequest.t = "post" /\ toolArgs.tool \in ReportTools

\* C18: every report request built with no granularity carries
\* returnRowTotals = true whatever the caller passed, an explicit false
\* included, for each of the campaign, ad-group, keyword and search-term
\* report handlers.
C18_RowTotalsForced ==
  (ReportSent /\ toolArgs.args.granularity = JUndef)
    => /\ Get(toolRequest.body, "returnRowTotals") = JBool(TRUE)
       /\ Get(toolRequest.body, "granularity") = JUndef

\* C18 witness: the keyword report handler was called with no granularity and
\* returnRowTotals = false and has sent returnRowTotals = true
C18_Witness ==
  /\ ReportSent /\ toolArgs.tool = "get_keyword_reports"
  /\ toolRequest.endpoint = "/reports/campaigns/1/keywords"
  /\ toolArgs.args.granularity = JUndef
  /\ toolArgs.args.returnRowTotals = JBool(FALSE)
  /\ Get(toolRequest.body, "returnRowTotals") = JBool(TRUE)

\* C19: every report request built with a granularity carries that
\* granularity and returnGrandTotals = false whatever the caller passed, an
\* explicit true included; no request carries both a granularity and
\* returnGrandTotals = true.
C19_GrandTotalsForced ==
  ReportSent =>
    /\ toolArgs.args.granularity # JUndef =>
         /\ Get(toolRequest.body, "granularity") = toolArgs.args.granularity
         /\ Get(toolRequest.body, "returnGrandTotals") = JBool(FALSE)
    /\ ~(/\ Get(toolRequest.body, "granularity") # JUndef
         /\ Get(toolRequest.body, "returnGrandTotals") = JBool(TRUE))

\* C19 witness: a DAILY report asked with returnGrandTotals = true was sent
\* with returnGrandTotals = false
C19_Witness ==
  /\ ReportSent
  /\ toolArgs.args.granularity = JStr("DAILY")
  /\ toolArgs.args.returnGrandTotals = JBool(TRUE)
  /\ Get(toolRequest.body, "returnGrandTotals") = JBool(FALSE)

\* C20: every report request has a selector whose orderBy is a non-empty
\* list: [{field: "impressions", sortOrder: "DESCENDING"}] when the caller
\* gives no orderBy (also when the caller gives no selector), and otherwise
\* the one-element list holding the caller's clause.
C20_OrderByNeverEmpty ==
  ReportSent =>
    LET orderBy == Get(Get(toolRequest.body, "selector"), "orderBy")
        given == Get(toolArgs.args.selector, "orderBy")
    IN /\ orderBy.t = "array" /\ Len(orderBy.v) = 1
       /\ given = JUndef =>
            orderBy.v[1] = JObj([field |-> JStr("impressions"),
                                 sortOrder |-> JStr("DESCENDING")])
       /\ given # JUndef => orderBy.v[1] = given

\* C20 witness: a report asked without any selector was sent ordered by
\* impressions, descending
C20_Witness ==
  /\ ReportSent /\ toolArgs.args.selector = JUndef
  /\ Get(Get(toolRequest.body, "selector"), "orderBy") =
       JArr(<<JObj([field |-> JStr("impressions"),
                    sortOrder |-> JStr("DESCENDING")])>>)

\* a find handler has made its client call
FindSent == toolRequest.t = "post" /\ toolArgs.tool \in FindTools

\* the value the caller gave, or the default d when the caller gave none
GivenOr(j, d) == IF j \in {JUndef, Null} THEN JNum(d) ELSE j

\* C21: every selector built by a find or report handler has a pagination
\* with both offset and limit: offset is the caller's value, or 0 when the
\* caller gives none; limit is the caller's value, or else 20 for campaign
\* and ad-group search and 1000 for targeting-keyword search and reports.
C21_PaginationDefaults ==
  /\ FindSent =>
       LET pagination == Get(toolRequest.body, "pagination") IN
       /\ pagination.t = "object"
       /\ DOMAIN pagination.v = {"offset", "limit"}
       /\ pagination.v.offset = GivenOr(toolArgs.args.offset, 0)
       /\ pagination.v.limit =
            GivenOr(toolArgs.args.limit,
                    IF toolArgs.tool = "find_targeting_keywords"
                      THEN 1000 ELSE 20)
  /\ ReportSent =>
       LET pagination == Get(Get(toolRequest.body, "selector"), "pagination")
       IN
       /\ pagination.t = "object"
       /\ DOMAIN pagination.v = {"offset", "limit"}
       /\ pagination.v.offset =
            GivenOr(Get(toolArgs.args.selector, "offset"), 0)
       /\ pagination.v.limit =
            GivenOr(Get(toolArgs.args.selector, "limit"), 1000)

\* C21 witness: an ad-group search asked with offset 5 and no limit was sent
\* with offset 5 and limit 20
C21_Witness ==
  /\ FindSent /\ toolArgs.tool = "find_adgroups"
  /\ toolArgs.args.offset = JNum(5) /\ toolArgs.args.limit = JUndef
  /\ Get(toolRequest.body, "pagination") =
       JObj([offset |-> JNum(5), limit |-> JNum(20)])

\* caller p sends a request to the token endpoint in this step
SendsTokenRequest(p) ==
  /\ tokenNet'[p].t = "request"
  /\ tokenNet[p].t # "request"

\* C22: every exchange mints its own assertion: the assertion a token request
\* carries was issued at the time the request is sent, never at the time of
\* an earlier exchange; its expires-at is its issued-at plus 86400 s (1440
\* min), its issuer the team id, its subject the client id, and its header
\* carries the key id.  No assertion outlives the request that carries it.
C22_FreshAssertion ==
  /\ [][\A p \in Callers :
          SendsTokenRequest(p) =>
            LET secret == tokenNet'[p].client_secret IN
            /\ secret.payload.iat = clock
            /\ secret.payload.exp = secret.payload.iat + 1440
            /\ secret.payload.iss = Config.auth.teamId
            /\ secret.payload.sub = Config.auth.clientId
            /\ secret.payload.aud = "https://appleid.apple.com"
            /\ secret.header.kid = Config.auth.keyId]_vars
  /\ [](\A p \in Callers :
          pc[p] # "awaitToken" => tokenNet[p].t = "null")

\* C22 witness: the second exchange is in flight with an assertion issued
\* later than time 0, when the first assertion could have been minted
C22_Witness ==
  \E p \in Callers :
    /\ tokenNet[p].t = "request" /\ tokenNet[p].n = 2
    /\ tokenNet[p].client_secret.payload.iat > 0
    /\ tokenNet[p].client_secret.payload.exp =
         tokenNet[p].client_secret.payload.iat + 1440

\* the cached token has more than 5 minutes left
CacheUsable == cachedToken.t = "token" /\ cachedToken.expiresAt > clock + 5

\* C23: when the private key cannot be read, a getAccessToken call that needs
\* an exchange fails while minting, with the error of the read: it sends no
\* token request and no upstream request and leaves the cache as it was; a
\* call that finds a still-valid token in the cache gets that token, the key
\* file not being read at all.
C23_UnreadableKey ==
  /\ [][\A p \in Callers :
          (pc[p] = "idle" /\ key'[p] = "unreadable") =>
            /\ cachedToken' = cachedToken /\ tokenCalls' = tokenCalls
            /\ tokenNet'[p].t = "null"
            /\ CacheUsable =>
                 /\ got'[p] = [t |-> "got", token |-> cachedToken.accessToken,
                               fromCache |-> TRUE]
                 /\ result'[p].t # "error" /\ exchanges'[p] = 0
            /\ ~CacheUsable =>
                 /\ pc'[p] = "done" /\ got'[p].t = "null"
                 /\ result'[p] =
                      [t |-> "error",
                       message |-> "ENOENT: no such file or directory, open '"
                                   \o Config.auth.privateKeyPath \o "'"]
                 /\ requests'[p] = [token |-> 0, api |-> 0]
                 /\ apiNet'[p].t = "null"]_vars
  /\ [](\A p \in Callers :
          key[p] = "unreadable" =>
            /\ requests[p].token = 0 /\ tokenNet[p].t = "null"
            /\ requests[p].api > 0 => (got[p].t = "got" /\ got[p].fromCache))

\* C23 witness: with the key unreadable one call has failed while minting
\* and sent nothing
C23_Witness ==
  \E p \in Callers :
    /\ key[p] = "unreadable" /\ pc[p] = "done" /\ result[p].t = "error"
    /\ op[p] = "post" /\ requests[p] = [token |-> 0, api |-> 0]

\* a call was served from the cache although the key is unreadable
C23_ServedFromCache ==
  \E p \in Callers :
    /\ key[p] = "unreadable" /\ got[p].t = "got" /\ got[p].fromCache
    /\ requests[p].api = 1

\* C25: the cache is empty or holds a pair whose two fields come from one
\* token response: the cache starts empty, and every step that changes it
\* either empties it or writes the access token of one response together
\* with the expiry computed from that same response's expires_in.
C25_PairFromOneResponse ==
  /\ [](\/ cachedToken = Null
        \/ /\ cachedToken.t = "token"
           /\ DOMAIN cachedToken = {"t", "accessToken", "expiresAt"})
  /\ [][cachedToken' # cachedToken =>
          \/ cachedToken' = Null
          \/ \E p \in Callers :
               /\ tokenNet[p].t = "response" /\ tokenNet[p].ok
               /\ cachedToken' =
                    [t |-> "token",
                     accessToken |-> tokenNet[p].access_token,
                     expiresAt |-> now[p] + tokenNet[p].expires_in]]_vars

\* C25 witness: two exchanges overlapped; the second one's token was stored
\* and returned, then the first one's pair replaced it
C25_Witness ==
  \E p \in Callers :
    /\ result[p].t = "token" /\ result[p].value.text = "tok2"
    /\ cachedToken.t = "token" /\ cachedToken.accessToken.text = "tok1"
    /\ lastEvent = [t |-> "stored", token |-> cachedToken.accessToken]

\* C26: a getAccessToken call that performed an exchange returns the access
\* token of its own response, whatever the cache held and whatever other
\* calls or clearTokenCache did meanwhile; the write of the cache and the
\* return happen in the same step.
C26_ReturnsOwnToken ==
  [][\A p \in Callers :
       (ResumeStep(p) /\ tokenNet[p].ok /\ op[p] = "getAccessToken") =>
         /\ pc'[p] = "done"
         /\ result'[p] = [t |-> "token", value |-> tokenNet[p].access_token]
         /\ got'[p] = [t |-> "got", token |-> tokenNet[p].access_token,
                       fromCache |-> FALSE]
         /\ cachedToken'.accessToken = tokenNet[p].access_token]_vars

\* C26 witness: a call returned the token of its own, first, exchange after a
\* concurrent call had stored and returned the token of the second exchange
C26_Witness ==
  \E p, q \in Callers :
    /\ p # q
    /\ result[p].t = "token" /\ result[p].value.text = "tok1"
    /\ ~got[p].fromCache
    /\ result[q].t = "token" /\ result[q].value.text = "tok2"
    /\ lastEvent = [t |-> "stored", token |-> result[p].value]

\* C27: the expiry stored after an exchange is the time read at entry to
\* getAccessToken plus expires_in: it is never later than the time the
\* response was received plus expires_in, nor later than the expiry the
\* endpoint gave the token.
C27_ExpiryFromEntryTime ==
  /\ [][\A p \in Callers :
          /\ (StartStep(p) /\ pc'[p] = "awaitToken") => now'[p] = clock
          /\ (pc[p] = "awaitToken" /\ pc'[p] = "awaitToken") =>
               now'[p] = now[p]
          /\ (ResumeStep(p) /\ tokenNet[p].ok) =>
               /\ cachedToken'.expiresAt = now[p] + tokenNet[p].expires_in
               /\ cachedToken'.expiresAt <= clock + tokenNet[p].expires_in
               /\ cachedToken'.expiresAt <= tokenNet[p].access_token.exp]_vars
  /\ [](cachedToken.t = "token" =>
          cachedToken.expiresAt <= cachedToken.accessToken.exp)

\* C27 witness: time passed between the entry to getAccessToken and the
\* issue of the token, so the stored expiry is earlier than the token's own
C27_Witness ==
  /\ cachedToken.t = "token"
  /\ cachedToken.expiresAt < cachedToken.accessToken.exp
  /\ lastEvent.t = "stored"

\* the message "HTTP <status>: <statusText> - Response: <raw text>"
Fallback(resp) ==
  "HTTP " \o ToString(resp.status) \o ": " \o resp.statusText
  \o " - Response: " \o resp.text

\* C28: for a non-2xx response whose error field is a list with no entry the
\* client call raises an error whose message is the empty string, not the
\* "HTTP <status>: <statusText>" fallback; the fallback message is raised
\* only for a body whose error field is absent, null or otherwise falsy, and
\* it is raised for every JSON object of that kind.
C28_EmptyErrorList ==
  \A p \in Callers :
    (Classified(p) /\ ~Ok(apiResp[p].status) /\ IsJSON(apiResp[p].text)) =>
      LET json == JSONParse(apiResp[p].text)
          error == Get(json, "error")
      IN /\ (error.t = "array" /\ Len(error.v) = 0) =>
              result[p] = [t |-> "error", message |-> ""]
         /\ (result[p].t = "error"
               /\ result[p].message = Fallback(apiResp[p])) =>
              error.t \in {"undefined", "null"} \/ error = JBool(FALSE)
         /\ (json.t = "object"
               /\ (error.t \in {"undefined", "null"} \/ error = JBool(FALSE)))
              => result[p] = [t |-> "error", message |-> Fallback(apiResp[p])]

\* C28 witness: a 404 whose body is {"error":[]} raised an error with the
\* empty message
C28_Witness ==
  \E p \in Callers :
    /\ Classified(p) /\ apiResp[p].status = 404
    /\ apiResp[p].text = B_errList0
    /\ result[p] = [t |-> "error", message |-> ""]

\* an update handler has made its client call
UpdateSent == toolRequest # Null /\ toolArgs.tool \in UpdateTools

\* the object the update request carries the changed fields in
SentUpdates ==
  IF toolArgs.tool = "update_campaign"
    THEN Get(toolRequest.body, "campaign") ELSE toolRequest.body

\* the money arguments of the update tool called
MoneyArgs ==
  IF toolArgs.tool = "update_campaign"
    THEN {"budgetAmount", "dailyBudgetAmount"}
    ELSE {"defaultCpcBid", "cpaGoal"}

\* C29: an update handler sends a money amount only together with the
\* currency supplied in the same call: without a currency
\* handleUpdateCampaign leaves out budgetAmount and dailyBudgetAmount and
\* handleUpdateAdGroup leaves out defaultCpcBid and cpaGoal; the request is
\* still put, to the entity's endpoint, with the other fields given.
C29_MoneyNeedsCurrency ==
  UpdateSent =>
    /\ toolRequest.t = "put"
    /\ toolRequest.endpoint =
         (IF toolArgs.tool = "update_campaign" THEN "/campaigns/1"
          ELSE "/campaigns/1/adgroups/2")
    /\ \A k \in MoneyArgs :
         /\ k \in DOMAIN SentUpdates.v =>
              /\ toolArgs.args.currency \notin {JUndef, JStr("")}
              /\ SentUpdates.v[k] =
                   JObj([amount |-> toolArgs.args[k],
                         currency |-> toolArgs.args.currency])
         /\ toolArgs.args.currency \in {JUndef, JStr("")} =>
              k \notin DOMAIN SentUpdates.v
    /\ toolArgs.args.name # JUndef =>
         Get(SentUpdates, "name") = toolArgs.args.name

\* C29 witness: a campaign update with a new name and a budget amount but no
\* currency was put with the name and without the amount
C29_Witness ==
  /\ UpdateSent /\ toolArgs.tool = "update_campaign"
  /\ toolArgs.args.budgetAmount = JStr("100")
  /\ toolArgs.args.currency = JUndef
  /\ toolArgs.args.name = JStr("Spring")
  /\ Get(SentUpdates, "name") = JStr("Spring")
  /\ "budgetAmount" \notin DOMAIN SentUpdates.v

\* a step in which the CallTool handler is entered
ToolCallStep == pc["a"] = "idle" /\ env' = env

\* some variable the configuration needs is unset or empty
Incomplete(e) == \E n \in EnvNames : e[n] \in {JUndef, JStr("")}

\* a step that sends nothing and starts no client call
NoNetworkStep ==
  /\ tokenNet' = tokenNet /\ apiNet' = apiNet
  /\ requests' = requests /\ tokenCalls' = tokenCalls
  /\ pc' = pc

\* C24: while no client exists every tool call tries to construct one from the
\* environment; if the environment is incomplete the call returns the
\* 'credentials not configured' text, sends nothing and leaves the client
\* absent; otherwise the client is built from the environment. Once a client
\* exists no step replaces it, no tool call attempts a construction, and
\* the requests sent carry that client's organisation.
C24_LazyClient ==
  /\ [][/\ (ToolCallStep /\ client = Null) =>
             /\ construction' \in {"failed", "succeeded"}
             /\ Incomplete(env) =>
                  /\ construction' = "failed"
                  /\ client' = Null
                  /\ toolResult' = CredentialsResult
                  /\ NoNetworkStep
             /\ ~Incomplete(env) =>
                  /\ construction' = "succeeded"
                  /\ client'.t = "client"
                  /\ client'.config.orgId = env["APPLE_ADS_ORG_ID"].v
                  /\ client'.config.auth.keyId = env["APPLE_ADS_KEY_ID"].v
        /\ client # Null =>
             /\ client' = client
             /\ ToolCallStep => construction' = "skipped"]_vars
  /\ [](pc["a"] = "awaitApi" /\ op["a"] # "getUserAcl" =>
          apiNet["a"].headers["X-AP-Context"] = "orgId=" \o client.config.orgId)

\* C24 witness: a tool call is being served by the existing client, without
\* a construction, while the environment is one no client can be built from
C24_Witness ==
  /\ construction = "skipped"
  /\ Incomplete(env)
  /\ pc["a"] = "awaitApi" /\ op["a"] = "post"
  /\ apiNet["a"].headers["X-AP-Context"] = "orgId=" \o client.config.orgId

\* the CallTool handler returns from a client call
ToolReturnStep == pc["a"] = "done" /\ pc'["a"] = "idle"

\* the response carries isError = true and the one text `text`
IsErrorWith(response, text) ==
  response = [content |-> <<[type |-> "text", text |-> JStr(text)]>>,
              isError |-> TRUE]

\* C30: once a client exists, every tool call ends in a response. A name
\* that is not advertised is answered at once with isError = true and
\* "Unknown tool: <name>", nothing being sent. An advertised name is
\* dispatched: either its arguments are rejected and the answer is
\* isError = true with "Error: <message>", nothing being sent, or the call
\* enters a client method. When the client method throws (the token could
\* not be acquired, or the upstream call failed) the answer is
\* isError = true with "Error: <message>"; when it returns, the answer
\* carries no isError.
C30_NoErrorEscapes ==
  /\ [](toolArgs # Null => (toolResult # Null <=> pc["a"] = "idle"))
  /\ [][(ToolCallStep /\ construction' \in {"skipped", "succeeded"}) =>
          IF toolArgs'.tool \notin allToolDefinitions
            THEN /\ IsErrorWith(toolResult', "Unknown tool: " \o toolArgs'.tool)
                 /\ NoNetworkStep
          ELSE IF toolArgs'.args = "valid" \/ toolArgs'.tool = "get_user_acl"
            THEN /\ toolResult' = Null
                 /\ pc'["a"] # "idle" /\ op'["a"] \in Methods
          ELSE /\ \/ IsErrorWith(toolResult', "Error: " \o ZodRequiredMessage)
                  \/ /\ toolArgs'.tool \in UnparsedTools
                     /\ IsErrorWith(toolResult',
                          "Error: Cannot read properties of undefined "
                          \o "(reading 'query')")
               /\ NoNetworkStep]_vars
  /\ [][ToolReturnStep =>
          IF result["a"].t = "error"
            THEN IsErrorWith(toolResult', "Error: " \o result["a"].message)
            ELSE /\ toolResult' # Null
                 /\ "isError" \notin DOMAIN toolResult'
                 /\ toolResult'.content[1].text.t = "text"]_vars

\* C30 witness: a report call with valid arguments was answered 403 with an
\* error list by the upstream, and the tool call returned that error
C30_Witness ==
  /\ toolArgs # Null /\ toolArgs.tool = "get_keyword_reports"
  /\ toolArgs.args = "valid"
  /\ construction = "succeeded"
  /\ IsErrorWith(toolResult,
       "Error: " \o handleResponse(403, StatusText(403), B_errList1).message)

====
